---- MODULE Spec2Model ----
(***************************************************************************)
(* letmaik/vscode-podcasts: the metadata store (src/src/storage.ts, the    *)
(* Storage class of lines 237-566), the download primitive                 *)
(* (src/src/util.ts) and the player (src/src/player.ts, the Player class   *)
(* of lines 83-271, with the ShellPlayer of src/unnamed/part_010).         *)
(*                                                                         *)
(* Node.js runs one callback at a time: an action of this model is the     *)
(* synchronous code between two awaits of an async function, or one event  *)
(* handler.  Time is counted in days.                                      *)
(*                                                                         *)
(* The specifications share the actions:                                   *)
(*   Spec       the store with one operation in flight, any server;        *)
(*   SpecStale  the cache over time: the staleness bound;                  *)
(*   SpecFeed   refreshes of a feed that does not change;                  *)
(*   SpecPlay   the Player on a cached podcast, its play() calls           *)
(*              interleaved with the events of processes, timers and       *)
(*              downloads;                                                 *)
(*   SpecSweep  two podcasts over time: the purge sweep;                   *)
(*   SpecRoam   the roaming records: stars, listening status, purge;       *)
(*   SpecSave   saveMetadata with its writes as steps, and the crash;      *)
(*   SpecPair   two callers at once, each with a URL of its own;           *)
(*   SpecRace   two refreshes of one URL at once;                          *)
(*   SpecWatch  the watch on roaming.json (modelled from the               *)
(*              specification of the repository; time in seconds);         *)
(*   SpecParse  the feed parser (src/unnamed/part_000) and loadPodcastFeed *)
(*              on durations and documents;                                *)
(*   SpecShell  the Player on downloaded episodes: play, restart, pause    *)
(*              and stop interleaved with the events of the processes;     *)
(*   SpecHold   a download in flight while another caller refreshes;       *)
(*   SpecRing   refreshes of a feed whose last page links to its first,    *)
(*              with the fairness of the loop of updatePodcast;            *)
(*   SpecResume the listening positions of several episodes;               *)
(*   SpecImport the OPML import (src/src/commands/importFromOPML.ts).      *)
(*                                                                         *)
(* Taken as given: outside SpecSave writeFile takes effect at once, and    *)
(* so does unlink; file names drawn with Math.random() do not collide;     *)
(* the `downloaded` objects are shared by reference (dlobj), episode       *)
(* records are copied by value.  In SpecPlay one episode is downloaded    *)
(* and the other is not, and the playback ends only with its process; the *)
(* commands on a running process are those of SpecShell.  The close event *)
(* of a process stores the listening status (ProcessClose).               *)
(***************************************************************************)
EXTENDS Integers, Sequences, FiniteSets, TLC

\* ------------------------------------------------------------------ bounds
MaxTasks == 2
MaxPages == 2
MaxNow == 61
MaxFiles == 3
MaxProcs == 2
MaxClock == 12
MaxComps == 5
MaxItems == 2

\* ------------------------------------------------------- program constants
ThirtyDays == 30
OneWeek == 7

\* ------------------------------------------------------------ model values
Urls == {"u1", "u2"}
OneUrl == {"u1"}
Guids == {"0", "a", "b"}
FileNames == 1..MaxFiles
Tasks == 1..MaxTasks
Procs == 1..MaxProcs
DlIds == 1..(Cardinality(Urls) + MaxTasks)
TickSteps == {OneWeek, ThirtyDays + 1}

\* A feed of one to MaxPages pages, page i linking to page i+1; a page is the
\* set of the GUIDs of its items.  The feeds of the RingUrls link on from
\* their last page to their first.
RemoteFeeds == UNION {[1..n -> SUBSET Guids] : n \in 1..MaxPages}

\* The URLs whose feed is a ring: the last page links back to the first.
RingUrls == {"u2"}

\* remote[u] = AnyFeed: nothing is assumed about what the server of u sends,
\* every request is answered by any page.
AnyFeed == <<>>

\* What one request for a page can return.
Pages == [items : SUBSET Guids, next : BOOLEAN]

VARIABLES
    now,      \* Date.now(), in days
    remote,   \* the feed each URL serves, or AnyFeed
    local,    \* Storage.metadata.local.podcasts
    dlobj,    \* the heap of `downloaded` objects (feeds share them by reference)
    roaming,  \* Storage.metadata.roaming.podcasts
    files,    \* the files of the enclosures directory
    disk,     \* the content of local.json
    rdisk,    \* roaming.json: its content and its modification time
    watch,    \* the watch on roaming.json: time of the store's last save, event
    task,     \* the async operations in flight
    player,   \* the Player: status, current episode, token source, timers
    shell,    \* the ShellPlayer: status, process handle, processes not closed
    settled,  \* history: local[u] is a finished refresh of the current remote[u]
    last      \* history: what the last step did

vars == <<now, remote, local, dlobj, roaming, files, disk, rdisk, watch, task, player,
          shell, settled, last>>

\* ----------------------------------------------------------------- helpers
EmptyMap == [g \in {} |-> {}]
MapPut(m, k, v) == [x \in DOMAIN m \cup {k} |-> IF x = k THEN v ELSE m[x]]
MapDrop(m, ks) == [x \in DOMAIN m \ ks |-> m[x]]

NoPodcast == [exists |-> FALSE]
NoRoaming == [exists |-> FALSE]
NewRoaming(starred) == [exists |-> TRUE, starred |-> starred, episodes |-> EmptyMap]
NoWatch == [lastSave |-> 0, event |-> FALSE]
NoFeed == [exists |-> FALSE]
Idle == [pc |-> "idle"]
Dead == [pc |-> "dead"]
Torn == [torn |-> TRUE]
NoEvent == [ev |-> "none"]
NoProcess == 0
StoppedPlayer ==
    [status |-> "STOPPED", feed |-> "", cur |-> "", src |-> 0, timer |-> FALSE,
     leaked |-> FALSE]
IdleShell(statusCmd) ==
    [statusCmd |-> statusCmd, status |-> "STOPPED", process |-> NoProcess,
     running |-> {}, plays |-> [p \in Procs |-> ""], pos |-> FALSE, from |-> "",
     stopped |-> FALSE]

Min(S) == CHOOSE x \in S : \A y \in S : x <= y

\* The maps over the URLs that hold one of `xs` at the first URL and `rest`
\* at the others.
OnOneUrl(xs, rest) == {[u \in Urls |-> IF u \in OneUrl THEN x ELSE rest] : x \in xs}

\* for (const guid in array): the keys of a JavaScript array are its indices,
\* as strings.
IndexKey == <<"0", "1", "2", "3", "4", "5", "6", "7", "8", "9">>
ArrayIndexKeys(n) == {IndexKey[i] : i \in 1..n}

\* The duration the feed states for an episode ("none": no itunes:duration).
FeedDuration(g) == IF g = "a" THEN "none" ELSE "feed"

\* ------------------------------------------------------------------ store
IsStarredPodcast(roam, u) == roam[u].exists /\ roam[u].starred

HasLocalPodcast(u) == local[u].exists

GetOrCreateRoamingPodcast(roam, u) ==
    IF roam[u].exists THEN roam[u] ELSE NewRoaming(FALSE)

NoEpisode == [exists |-> FALSE]

\* getOrCreateRoamingEpisode(u, g) on the roaming podcasts `roam`: the
\* podcasts with the records created, and the episode record.
GetOrCreateRoamingEpisode(roam, u, g) ==
    LET pod == GetOrCreateRoamingPodcast(roam, u)
        eps == IF g \in DOMAIN pod.episodes THEN pod.episodes
               ELSE MapPut(pod.episodes, g, [completed |-> FALSE])
    IN  [roam EXCEPT ![u] = [pod EXCEPT !.episodes = eps]]

\* A variant of getEpisode that looks for the roaming record under the
\* local podcast only.
GetEpisodeOfLocal(u, g) ==
    [local |-> IF local[u].exists /\ g \in DOMAIN local[u].episodes
               THEN local[u].episodes[g] ELSE NoEpisode,
     roaming |-> IF local[u].exists /\ roaming[u].exists /\ g \in DOMAIN roaming[u].episodes
                 THEN roaming[u].episodes[g] ELSE NoEpisode]

\* getEpisode(u, g); NoEpisode stands for undefined.
GetEpisode(u, g) ==
    [local |-> IF local[u].exists /\ g \in DOMAIN local[u].episodes
               THEN local[u].episodes[g] ELSE NoEpisode,
     roaming |-> IF roaming[u].exists /\ g \in DOMAIN roaming[u].episodes
                 THEN roaming[u].episodes[g] ELSE NoEpisode]

\* A variant that asks for the record under the local podcast only.
GetLastListeningPositionOfLocal(u, g) ==
    LET meta == GetEpisodeOfLocal(u, g)
    IN  IF meta.roaming = NoEpisode THEN 0
        ELSE IF "lastPosition" \notin DOMAIN meta.roaming THEN 0
        ELSE IF meta.roaming.lastPosition \in {{}, {0}} THEN 0
        ELSE CHOOSE x \in meta.roaming.lastPosition : TRUE

\* getLastListeningPosition(u, g): 0 without a roaming record and for a
\* position that is undefined (the set {}) or 0.
GetLastListeningPosition(u, g) ==
    LET meta == GetEpisode(u, g)
    IN  IF meta.roaming = NoEpisode THEN 0
        ELSE IF "lastPosition" \notin DOMAIN meta.roaming THEN 0
        ELSE IF meta.roaming.lastPosition \in {{}, {0}} THEN 0
        ELSE CHOOSE x \in meta.roaming.lastPosition : TRUE

\* saveMetadata({roaming: true}): the write of roaming.json.
WriteRoaming(roam) == [doc |-> roam, mtime |-> now]

\* loadPodcastFeed: the episodes map of one parsed page.
ParsePage(items) == [g \in items |-> [duration |-> FeedDuration(g)]]

\* A variant that never detects an overlap with the cached feed.
ArePagesOverlappingNever(page1, page2) == FALSE

ArePagesOverlapping(page1, page2) ==
    /\ page2.exists
    /\ \E g \in DOMAIN page1 : g \in DOMAIN page2.episodes

\* A variant in which the record of the page wins over the record appended.
AppendPageNewWins(page1, page2) ==
    IF ~page2.exists THEN page1
    ELSE [g \in DOMAIN page1 \cup DOMAIN page2.episodes |->
            IF g \in DOMAIN page1 THEN page1[g] ELSE page2.episodes[g]]

\* appendPage(page1, page2): the episodes of page2 are written into page1.
AppendPage(page1, page2) ==
    IF ~page2.exists THEN page1
    ELSE [g \in DOMAIN page1 \cup DOMAIN page2.episodes |->
            IF g \in DOMAIN page2.episodes THEN page2.episodes[g] ELSE page1[g]]

\* A variant that reads updateIfOlderThan as a maximum age.
NeedsUpdateByAge(lastRefreshed, bound) ==
    \E x \in bound : x # 0 /\ now - lastRefreshed > x

\* fetchPodcast's test for a refresh of a cached podcast; `bound` is {} for
\* an omitted updateIfOlderThan, {x} otherwise.
NeedsUpdate(lastRefreshed, bound) ==
    \E x \in bound : x # 0 /\ lastRefreshed < x

\* updatePodcast lines 463-467: the GUIDs the loop hands to
\* deleteEpisodeEnclosure.
SweepKeys(downloaded, episodes) ==
    ArrayIndexKeys(Cardinality(DOMAIN downloaded \ DOMAIN episodes))

\* deleteEpisodeEnclosure throws on a GUID without a download record (the
\* rejected promise is dropped); for the others it drops the record and
\* unlinks the file.
SweepDeleted(downloaded, episodes) ==
    SweepKeys(downloaded, episodes) \cap DOMAIN downloaded

\* A variant of the sweep that does not look at the downloads.
PurgedUrlsIgnoringDownloads(loc, dlo, roam, t) ==
    {u \in Urls : /\ loc[u].exists
                  /\ ~IsStarredPodcast(roam, u)
                  /\ loc[u].lastRefreshed < t - ThirtyDays}

\* A variant of the sweep that does not look at the age.
PurgedUrlsOfAnyAge(loc, dlo, roam, t) ==
    {u \in Urls : /\ loc[u].exists
                  /\ ~IsStarredPodcast(roam, u)
                  /\ DOMAIN dlo[loc[u].dl] = {}}

\* purgeOldMetadata at the time t: the podcasts it deletes.
PurgedUrls(loc, dlo, roam, t) ==
    {u \in Urls : /\ loc[u].exists
                  /\ ~IsStarredPodcast(roam, u)
                  /\ DOMAIN dlo[loc[u].dl] = {}
                  /\ loc[u].lastRefreshed < t - ThirtyDays}

PurgeOldMetadata(loc, dlo, roam, t) ==
    [u \in Urls |-> IF u \in PurgedUrls(loc, dlo, roam, t) THEN NoPodcast ELSE loc[u]]

\* JSON.stringify(this.metadata.local): the document written to local.json.
Stringify(loc, dlo) ==
    [u \in Urls |->
        IF loc[u].exists
        THEN [exists |-> TRUE, episodes |-> loc[u].episodes,
              downloaded |-> dlo[loc[u].dl], lastRefreshed |-> loc[u].lastRefreshed]
        ELSE NoPodcast]

\* The `downloaded` objects something still refers to.
TaskRefs(tk) ==
    {tk[t].old.dl : t \in {x \in Tasks : tk[x].pc = "loading" /\ tk[x].old.exists}}
    \cup {tk[t].dl : t \in {x \in Tasks : tk[x].pc \in {"downloading", "copying", "probing"}}}
LiveRefs(loc, tk) == {loc[u].dl : u \in {x \in Urls : loc[x].exists}} \cup TaskRefs(tk)

\* Objects nothing refers to are collected.
Collect(dlo, loc, tk) ==
    [i \in DlIds |-> IF i \in LiveRefs(loc, tk) THEN dlo[i] ELSE EmptyMap]

FreshDl == Min(DlIds \ LiveRefs(local, task))

TypeOK ==
    /\ now \in 0..MaxNow
    /\ remote \in [Urls -> RemoteFeeds \cup {AnyFeed}]
    /\ \A u \in Urls : local[u].exists =>
          /\ DOMAIN local[u].episodes \subseteq Guids
          /\ local[u].dl \in DlIds
    /\ files \subseteq FileNames
    /\ settled \in [Urls -> BOOLEAN]
    /\ \A t \in Tasks :
          task[t].pc \in {"idle", "loading", "downloading", "copying", "probing", "opening",
                           "writing", "dead", "fetched", "importing"}
    /\ player.status \in {"STOPPED", "DOWNLOADING", "OPENING", "PLAYING", "PAUSED"}
    /\ player.src \in Tasks \cup {0}
    /\ shell.status \in {"STOPPED", "PLAYING", "PAUSED"}
    /\ shell.process \in Procs \cup {NoProcess}
    /\ shell.running \subseteq Procs

Init ==
    /\ now = ThirtyDays
    /\ remote = [u \in Urls |-> AnyFeed]
    /\ local = [u \in Urls |-> NoPodcast]
    /\ dlobj = [i \in DlIds |-> EmptyMap]
    /\ roaming \in OnOneUrl({NoRoaming, NewRoaming(TRUE)}, NoRoaming)
    /\ files = {}
    /\ disk = [u \in Urls |-> NoPodcast]
    /\ rdisk = [doc |-> roaming, mtime |-> 0]
    /\ watch = NoWatch
    /\ task = [t \in Tasks |-> Idle]
    /\ player = StoppedPlayer
    /\ shell = IdleShell(FALSE)
    /\ settled = [u \in Urls |-> FALSE]
    /\ last = NoEvent

\* ------------------------------------------------------------ environment
\* Time passes.
Tick(d) ==
    /\ now + d <= MaxNow
    /\ now' = now + d
    /\ last' = NoEvent
    /\ UNCHANGED <<remote, local, dlobj, roaming, rdisk, watch, files, disk, task, player, shell, settled>>

\* -------------------------------------------------- Player, ShellPlayer
\* The Player's onStatusChange handler: the status is taken over as it is;
\* PLAYING starts a new interval without clearing the one before, the other
\* statuses clear the interval started last.
OnStatusChange(pl, status) ==
    IF status = "PLAYING"
    THEN [pl EXCEPT !.status = "PLAYING", !.leaked = pl.leaked \/ pl.timer, !.timer = TRUE]
    ELSE [pl EXCEPT !.status = status, !.timer = FALSE]

\* ShellPlayer.setStatus fires the event, the handler runs at once.
SetStatus(pl, sh, status) ==
    [player |-> OnStatusChange(pl, status), shell |-> [sh EXCEPT !.status = status]]

\* ShellPlayer.stop: the process is killed and the handle forgotten; its
\* 'close' event comes later.
ShellStop(sh) == [sh EXCEPT !.process = NoProcess, !.stopped = TRUE]

FreeProcs(sh) == Procs \ sh.running

\* ShellPlayer.play from line 243 on, for the file of episode g: the fields
\* of the position start anew, PLAYING at once for a player without a status
\* command, then the spawn.  `plays` is the audio of each process, `from`
\* the audio that the fields of the position were last set for.
Spawn(pl, sh, g) ==
    LET s == IF sh.statusCmd THEN [player |-> pl, shell |-> sh]
             ELSE SetStatus(pl, sh, "PLAYING")
        p == Min(FreeProcs(sh))
    IN  [player |-> s.player,
         shell |-> [s.shell EXCEPT !.pos = FALSE, !.stopped = FALSE, !.from = g,
                                   !.process = p, !.running = @ \cup {p},
                                   !.plays[p] = g]]

\* Player.play after `await fetchEpisodeEnclosure` settled with event ev, the
\* store holding loc: lines 211-234 and ShellPlayer.play up to its await or
\* its end.  `ok` is FALSE when the model has no process left to spawn.
PlayContinue(u, g, ev, loc, pl, sh) ==
    IF \/ ev.ev = "enclosureFailed"
       \/ ~loc[u].exists
       \/ g \notin DOMAIN loc[u].episodes
    THEN [ok |-> TRUE, tk |-> Idle, player |-> [pl EXCEPT !.status = "STOPPED"], shell |-> sh]
    ELSE IF loc[u].episodes[g].duration = "none"
    THEN [ok |-> TRUE,
          tk |-> [pc |-> "opening", op |-> "play", url |-> u, guid |-> g, caller |-> "player"],
          player |-> [pl EXCEPT !.status = "OPENING"], shell |-> ShellStop(sh)]
    ELSE IF FreeProcs(sh) = {}
    THEN [ok |-> FALSE, tk |-> Idle, player |-> pl, shell |-> sh]
    ELSE [ok |-> TRUE, tk |-> Idle,
          player |-> Spawn([pl EXCEPT !.status = "OPENING"], ShellStop(sh), g).player,
          shell |-> Spawn([pl EXCEPT !.status = "OPENING"], ShellStop(sh), g).shell]

\* fetchEpisodeEnclosure or fetchPodcast settles: its caller goes on.  The
\* caller "store" stands for a caller the model does not follow further,
\* the caller "import" is the loop of the OPML import, which goes on in
\* ImportResume.
Settle(caller, u, g, ev, loc, pl, sh) ==
    IF caller = "player" THEN PlayContinue(u, g, ev, loc, pl, sh)
    ELSE IF caller = "import"
    THEN [ok |-> TRUE,
          tk |-> [pc |-> "fetched", op |-> "import", url |-> u,
                  ok |-> ev.ev # "enclosureFailed"],
          player |-> pl, shell |-> sh]
    ELSE [ok |-> TRUE, tk |-> Idle, player |-> pl, shell |-> sh]

\* ------------------------------------------------- fetchEpisodeEnclosure
\* The enclosure files some download in flight is going to write.
PendingFiles == {task[t].file : t \in {x \in Tasks : task[x].pc \in {"downloading", "copying"}}}

\* Math.random() names are taken as never colliding with each other; the
\* do-while loop of lines 485-490 rejects the names of existing files.  The
\* names are opaque, so the least free one stands for any of them.
FreeNames(fls) == FileNames \ (fls \cup PendingFiles)

\* A variant that downloads the enclosure whether or not it is recorded.
EnclosureStepAnew(u, g, loc, dlo, fls, caller, cancelled) ==
    IF g \notin DOMAIN loc[u].episodes
    THEN [tk |-> Idle, ev |-> [ev |-> "enclosureFailed", url |-> u, guid |-> g, why |-> "episode"]]
    ELSE [tk |-> [pc |-> "downloading", op |-> "enclosure", url |-> u, guid |-> g,
                  dl |-> loc[u].dl, file |-> Min(FreeNames(fls)),
                  duration |-> loc[u].episodes[g].duration,
                  caller |-> caller, cancelled |-> cancelled],
          ev |-> [ev |-> "downloadStarted", url |-> u, guid |-> g]]

\* fetchEpisodeEnclosure from line 481 on, up to its first await or its
\* return, with the store as fetchPodcast left it.
EnclosureStep(u, g, loc, dlo, fls, caller, cancelled) ==
    IF g \in DOMAIN dlo[loc[u].dl]
    THEN [tk |-> Idle,
          ev |-> [ev |-> "enclosure", url |-> u, guid |-> g,
                  file |-> dlo[loc[u].dl][g], fresh |-> FALSE, cancelled |-> cancelled,
                  store |-> Stringify(loc, dlo), disk |-> disk, files |-> fls]]
    ELSE IF g \notin DOMAIN loc[u].episodes
    THEN [tk |-> Idle, ev |-> [ev |-> "enclosureFailed", url |-> u, guid |-> g, why |-> "episode"]]
    ELSE [tk |-> [pc |-> "downloading", op |-> "enclosure", url |-> u, guid |-> g,
                  dl |-> loc[u].dl, file |-> Min(FreeNames(fls)),
                  duration |-> loc[u].episodes[g].duration,
                  caller |-> caller, cancelled |-> cancelled],
          ev |-> [ev |-> "downloadStarted", url |-> u, guid |-> g]]

EnclosureStepEnabled(u, g, loc, dlo, fls) ==
    (g \notin DOMAIN dlo[loc[u].dl] /\ g \in DOMAIN loc[u].episodes) => FreeNames(fls) # {}

\* --------------------------------------------------------- updatePodcast
\* updatePodcast up to its first await: the snapshot of `old` and the request
\* for the first page.
BeginUpdate(t, op, u, g, bound, caller) ==
    [pc |-> "loading", op |-> op, url |-> u, guid |-> g, bound |-> bound,
     old |-> local[u], feed |-> NoFeed, page |-> 1, reqs |-> 1, seen |-> <<>>,
     inRow |-> settled[u], caller |-> caller, cancelled |-> FALSE,
     twin |-> \E x \in Tasks \ {t} : /\ task[x].pc = "loading"
                                      /\ task[x].url = u
                                      /\ task[x].old = local[u]]

\* The answers the server can give to the request in flight: the items of
\* the page and whether it links to a next page.
Served(t) ==
    LET u == task[t].url
        n == task[t].page
    IN  IF remote[u] = AnyFeed
        THEN {[items |-> s, next |-> b] :
                s \in SUBSET Guids, b \in {x \in BOOLEAN : x => n < MaxPages}}
        ELSE {[items |-> remote[u][i], next |-> i < Len(remote[u]) \/ u \in RingUrls] :
                i \in {n} \cap DOMAIN remote[u]}

\* The page that the link of the page in flight leads to.
Follow(t) ==
    LET u == task[t].url
    IN  IF u \in RingUrls /\ remote[u] # AnyFeed /\ task[t].page = Len(remote[u])
        THEN 1
        ELSE task[t].page + 1

\* The requests and the pages noted for the properties: the first MaxSeen.
MaxSeen == MaxPages + 1
Counted(n) == IF n < MaxSeen THEN n + 1 ELSE n
Noted(seen, pg) == IF Len(seen) < MaxSeen THEN Append(seen, pg) ELSE seen

Overlapping(t, pg) == ArePagesOverlapping(ParsePage(pg.items), task[t].old)

\* A variant of the loop's body that merges with the cache as it is now
\* instead of the entry read at line 436.
MergedWithCurrent(t, pg) ==
    IF ArePagesOverlapping(ParsePage(pg.items), local[task[t].url])
    THEN AppendPage(ParsePage(pg.items), local[task[t].url])
    ELSE AppendPage(ParsePage(pg.items), task[t].feed)

\* The while loop's body after loadPodcastFeed returned the page.
Merged(t, pg) ==
    IF Overlapping(t, pg)
    THEN AppendPage(ParsePage(pg.items), task[t].old)
    ELSE AppendPage(ParsePage(pg.items), task[t].feed)

\* A variant that follows the link of a page that overlaps the cache.
NextPageIgnoringOverlap(t, pg, linkOk) ==
    IF linkOk /\ pg.next THEN task[t].page + 1 ELSE 0

\* nextPageUrl after the loop's body, 0 for undefined; linkOk is FALSE when
\* getNextPageUrl throws (caught at lines 384-388).
NextPage(t, pg, linkOk) ==
    IF Overlapping(t, pg) THEN 0
    ELSE IF linkOk /\ pg.next THEN Follow(t)
    ELSE 0

\* updatePodcast's loop (lines 442-455) as a function: the episodes it
\* leaves when it starts with the cached entry `old` and with `feed`, and the
\* server answers with `pages`, all of them but the last linking on.
RECURSIVE Refreshed(_, _, _)
Refreshed(old, feed, pages) ==
    IF pages = <<>> THEN feed.episodes
    ELSE IF ArePagesOverlapping(ParsePage(Head(pages).items), old)
    THEN AppendPage(ParsePage(Head(pages).items), old)
    ELSE Refreshed(old, [exists |-> TRUE,
                         episodes |-> AppendPage(ParsePage(Head(pages).items), feed)],
                   Tail(pages))

\* loadPodcastFeed returns a page and the loop goes on to the next one.
LoadPage(t, pg, linkOk) ==
    /\ task[t].pc = "loading"
    /\ pg \in Served(t)
    /\ NextPage(t, pg, linkOk) # 0
    /\ task' = [task EXCEPT ![t] =
                  [@ EXCEPT !.feed = [exists |-> TRUE, episodes |-> Merged(t, pg)],
                            !.page = NextPage(t, pg, linkOk),
                            !.reqs = Counted(@),
                            !.seen = Noted(@, pg)]]
    /\ last' = NoEvent
    /\ UNCHANGED <<now, remote, local, dlobj, roaming, rdisk, watch, files, disk, player, shell, settled>>

\* A variant that treats a failed page as the end of the feed and stores the
\* pages fetched so far.
LoadPageFailKeepsPages(t) ==
    /\ task[t].pc = "loading"
    /\ LET u == task[t].url
           id == IF task[t].old.exists THEN task[t].old.dl ELSE FreshDl
           loc1 == IF task[t].feed.exists
                   THEN [local EXCEPT ![u] = [exists |-> TRUE,
                                              episodes |-> task[t].feed.episodes,
                                              dl |-> id, lastRefreshed |-> now]]
                   ELSE local
       IN  /\ task' = [task EXCEPT ![t] = Idle]
           /\ local' = loc1
           /\ dlobj' = Collect(dlobj, loc1, task')
           /\ disk' = Stringify(loc1, dlobj)
    /\ last' = [ev |-> "updateFailed", op |-> task[t].op, url |-> task[t].url,
                page |-> task[t].page, feed |-> task[t].feed,
                store |-> Stringify(local, dlobj), disk |-> disk, files |-> files]
    /\ UNCHANGED <<now, remote, roaming, rdisk, watch, files, player, shell, settled>>

\* A variant that forgets the cached podcast when its refresh fails.
LoadPageFailDropsCache(t) ==
    /\ task[t].pc = "loading"
    /\ task' = [task EXCEPT ![t] = Idle]
    /\ local' = [local EXCEPT ![task[t].url] = NoPodcast]
    /\ dlobj' = Collect(dlobj, local', task')
    /\ last' = [ev |-> "updateFailed", op |-> task[t].op, url |-> task[t].url,
                page |-> task[t].page, feed |-> task[t].feed,
                store |-> Stringify(local, dlobj), disk |-> disk, files |-> files]
    /\ UNCHANGED <<now, remote, roaming, rdisk, watch, files, disk, player, shell, settled>>

\* loadPodcastFeed throws (HTTP error, or the document does not parse): no
\* handler in updatePodcast, fetchPodcast or fetchEpisodeEnclosure catches it.
LoadPageFail(t) ==
    /\ task[t].pc = "loading"
    /\ LET r == Settle(task[t].caller, task[t].url, task[t].guid,
                       [ev |-> "enclosureFailed"], local, player, shell)
       IN  /\ task' = [task EXCEPT ![t] = r.tk]
           /\ player' = r.player
           /\ shell' = r.shell
    /\ dlobj' = Collect(dlobj, local, task')
    /\ last' = [ev |-> "updateFailed", op |-> task[t].op, url |-> task[t].url,
                page |-> task[t].page, feed |-> task[t].feed,
                store |-> Stringify(local, dlobj), disk |-> disk, files |-> files]
    /\ UNCHANGED <<now, remote, local, roaming, rdisk, watch, files, disk, settled>>

\* loadPodcastFeed returns the last page: lines 457-469, and the caller's
\* code up to its next await.
UpdateFinish(t, pg, linkOk) ==
    /\ task[t].pc = "loading"
    /\ pg \in Served(t)
    /\ NextPage(t, pg, linkOk) = 0
    /\ LET u == task[t].url
           old == task[t].old
           eps == Merged(t, pg)
           id == IF old.exists THEN old.dl ELSE FreshDl
           dl0 == IF old.exists THEN dlobj[id] ELSE EmptyMap
           gone == SweepDeleted(dl0, eps)
           files1 == files \ {dl0[g] : g \in gone}
           loc1 == [local EXCEPT ![u] = [exists |-> TRUE, episodes |-> eps,
                                         dl |-> id, lastRefreshed |-> now]]
           dlo1 == [dlobj EXCEPT ![id] = MapDrop(dl0, gone)]
           purged == PurgedUrls(loc1, dlo1, roaming, now)
           loc2 == PurgeOldMetadata(loc1, dlo1, roaming, now)
           cont == IF task[t].op = "enclosure"
                   THEN EnclosureStep(u, task[t].guid, loc2, dlo1, files1,
                                      task[t].caller, task[t].cancelled)
                   ELSE [tk |-> Idle, ev |-> NoEvent]
           r == IF cont.tk.pc = "idle"
                THEN Settle(task[t].caller, u, task[t].guid, cont.ev, loc2, player, shell)
                ELSE [ok |-> TRUE, tk |-> cont.tk, player |-> player, shell |-> shell]
       IN  /\ task[t].op = "enclosure" => EnclosureStepEnabled(u, task[t].guid, loc2, dlo1, files1)
           /\ r.ok
           /\ player' = r.player
           /\ shell' = r.shell
           /\ task' = [x \in Tasks |->
                         IF x = t THEN r.tk
                         ELSE IF task[x].pc = "loading" /\ task[x].url = u
                         THEN [task[x] EXCEPT !.inRow = FALSE]
                         ELSE task[x]]
           /\ local' = loc2
           /\ dlobj' = Collect(dlo1, loc2, task')
           /\ files' = files1
           /\ disk' = Stringify(loc2, dlo1)
           /\ settled' = [x \in Urls |->
                            IF x \in purged THEN FALSE
                            ELSE IF x = u THEN remote[u] # AnyFeed ELSE settled[x]]
           /\ last' = [ev |-> "updated", op |-> task[t].op, url |-> u, old |-> old,
                       oldDownloaded |-> dl0, oldFiles |-> files,
                       seen |-> Noted(task[t].seen, pg), reqs |-> task[t].reqs,
                       again |-> task[t].inRow, then |-> cont.ev,
                       swept |-> Stringify(loc1, dlo1),
                       was |-> local[u], twin |-> task[t].twin]
    /\ UNCHANGED <<now, remote, roaming, rdisk, watch>>

\* The refresh button of the podcast view: updatePodcast(url).
UpdatePodcast(t, u) ==
    /\ task[t].pc = "idle"
    /\ task' = [task EXCEPT ![t] = BeginUpdate(t, "update", u, "", {}, "store")]
    /\ last' = NoEvent
    /\ UNCHANGED <<now, remote, local, dlobj, roaming, rdisk, watch, files, disk, player, shell, settled>>

\* ---------------------------------------------------------- fetchPodcast
\* The updateIfOlderThan arguments the callers pass: none, one week ago
\* (showPodcast.ts:57), and a timestamp unrelated to now, such as an episode's
\* publication date (showHistory.ts:98).
BoundInputs == {{}, {now - OneWeek}, {OneWeek}}

FetchesFeed(u, bound) ==
    IF HasLocalPodcast(u) THEN NeedsUpdate(local[u].lastRefreshed, bound) ELSE TRUE

\* fetchPodcast(url, bound) answered from the cache.
FetchPodcastCached(t, u, bound) ==
    /\ task[t].pc = "idle"
    /\ ~FetchesFeed(u, bound)
    /\ last' = [ev |-> "cached", url |-> u, bound |-> bound, reqs |-> 0]
    /\ UNCHANGED <<now, remote, local, dlobj, roaming, rdisk, watch, files, disk, task, player, shell, settled>>

\* fetchPodcast(url, bound) calling updatePodcast.
FetchPodcastUpdate(t, u, bound) ==
    /\ task[t].pc = "idle"
    /\ FetchesFeed(u, bound)
    /\ task' = [task EXCEPT ![t] = BeginUpdate(t, "fetchPodcast", u, "", bound, "store")]
    /\ last' = [ev |-> "refreshing", url |-> u, bound |-> bound, cached |-> local[u].exists]
    /\ UNCHANGED <<now, remote, local, dlobj, roaming, rdisk, watch, files, disk, player, shell, settled>>

\* ------------------------------------------- fetchEpisodeEnclosure, cont.
\* saveMetadata({local: true}) on the store (loc, dlo): the purge sweep, then
\* the write of local.json.
SaveLocal(loc, dlo) ==
    /\ local' = PurgeOldMetadata(loc, dlo, roaming, now)
    /\ disk' = Stringify(local', dlo)
    /\ settled' = [u \in Urls |-> settled[u] /\ u \notin PurgedUrls(loc, dlo, roaming, now)]

\* fetchEpisodeEnclosure(u, g) up to its first await, called by `caller`
\* with a fresh token, the Player being pl and the ShellPlayer sh.
StartEnclosure(t, u, g, caller, pl, sh) ==
    /\ IF HasLocalPodcast(u)
       THEN LET step == EnclosureStep(u, g, local, dlobj, files, caller, FALSE)
                r == IF step.tk.pc = "idle"
                     THEN Settle(caller, u, g, step.ev, local, pl, sh)
                     ELSE [ok |-> TRUE, tk |-> step.tk, player |-> pl, shell |-> sh]
            IN  /\ EnclosureStepEnabled(u, g, local, dlobj, files)
                /\ r.ok
                /\ task' = [task EXCEPT ![t] = r.tk]
                /\ player' = r.player
                /\ shell' = r.shell
                /\ last' = step.ev
       ELSE /\ task' = [task EXCEPT ![t] = BeginUpdate(t, "enclosure", u, g, {}, caller)]
            /\ player' = pl
            /\ shell' = sh
            /\ last' = NoEvent
    /\ UNCHANGED <<now, remote, local, dlobj, roaming, rdisk, watch, files, disk, settled>>

\* fetchEpisodeEnclosure(feedUrl, guid) on a cached podcast: fetchPodcast
\* returns the cached entry.  The store runs it for one caller at a time.
FetchEnclosureCached(t, u, g) ==
    /\ task[t].pc = "idle"
    /\ \A x \in Tasks : task[x].pc # "idle" => task[x].op # "enclosure"
    /\ HasLocalPodcast(u)
    /\ StartEnclosure(t, u, g, "store", player, shell)

\* fetchEpisodeEnclosure(feedUrl, guid) on a podcast that is not cached:
\* fetchPodcast calls updatePodcast.
FetchEnclosureUpdate(t, u, g) ==
    /\ task[t].pc = "idle"
    /\ \A x \in Tasks : task[x].pc # "idle" => task[x].op # "enclosure"
    /\ ~HasLocalPodcast(u)
    /\ StartEnclosure(t, u, g, "store", player, shell)

\* downloadFile: the response was piped into the temporary file ('finish').
DownloadFinish(t) ==
    /\ task[t].pc = "downloading"
    /\ ~task[t].cancelled
    /\ task' = [task EXCEPT ![t].pc = "copying"]
    /\ last' = NoEvent
    /\ UNCHANGED <<now, remote, local, dlobj, roaming, rdisk, watch, files, disk, player, shell, settled>>

\* fetchEpisodeEnclosure throws out of downloadFile, whose finally block
\* unlinks the temporary file: nothing was copied.
EnclosureThrows(t, why) ==
    LET ev == [ev |-> "enclosureFailed", url |-> task[t].url, guid |-> task[t].guid,
               why |-> why, file |-> task[t].file,
               store |-> Stringify(local, dlobj), disk |-> disk]
        r == Settle(task[t].caller, task[t].url, task[t].guid, ev, local, player, shell)
    IN  /\ task' = [task EXCEPT ![t] = r.tk]
        /\ player' = r.player
        /\ shell' = r.shell
        /\ dlobj' = Collect(dlobj, local, task')
        /\ last' = ev
        /\ UNCHANGED <<now, remote, local, roaming, rdisk, watch, files, disk, settled>>

\* A variant of a download that writes to the enclosure path at once: a
\* failure leaves the file there.
DownloadFailLeavesFile(t, why) ==
    /\ task[t].pc = "downloading"
    /\ (why = "cancelled") = task[t].cancelled
    /\ task' = [task EXCEPT ![t] = Idle]
    /\ files' = files \cup {task[t].file}
    /\ last' = [ev |-> "enclosureFailed", url |-> task[t].url, guid |-> task[t].guid,
                why |-> why, file |-> task[t].file,
                store |-> Stringify(local, dlobj), disk |-> disk]
    /\ UNCHANGED <<now, remote, local, dlobj, roaming, rdisk, watch, disk, player, shell, settled>>

\* downloadFile rejects: a transport error or a status other than 200 (why =
\* "error"), or the listener of a token that was cancelled before the
\* download started (why = "cancelled").
DownloadFail(t, why) ==
    /\ task[t].pc = "downloading"
    /\ (why = "cancelled") = task[t].cancelled
    /\ EnclosureThrows(t, why)

\* token.cancel(): the listener downloadFile registered rejects a download
\* that is still receiving; before the download the token just stays
\* cancelled, after it the listener rejects a promise that is settled.
TokenCancel(t) ==
    IF task[t].pc = "downloading"
    THEN EnclosureThrows(t, "cancelled")
    ELSE /\ task' = [task EXCEPT ![t].cancelled = TRUE]
         /\ last' = NoEvent
         /\ UNCHANGED <<now, remote, local, dlobj, roaming, rdisk, watch, files, disk, player, shell,
                        settled>>

InFlight(t) ==
    /\ task[t].pc \in {"loading", "downloading", "copying", "probing"}
    /\ task[t].op = "enclosure"

\* The token of a fetchEpisodeEnclosure call in flight is cancelled.
CancelToken(t) ==
    /\ InFlight(t)
    /\ task[t].caller = "store"
    /\ ~task[t].cancelled
    /\ TokenCancel(t)

\* The value the store holds for the episode after `episode.duration = d`.
\* The episode object is taken to be the one the store still holds.
PatchDuration(loc, u, g, d) ==
    IF loc[u].exists /\ g \in DOMAIN loc[u].episodes
    THEN [loc EXCEPT ![u].episodes[g].duration = d]
    ELSE loc

\* Lines 504-508: the save, and the return of the path of the file the
\* record names (a TypeError when the record is gone).  `probe` tells what
\* became of getAudioDuration: "none" (not called), "ok" or "failed".
EnclosureReturn(t, loc, dlo, probe) ==
    LET ev == IF task[t].guid \in DOMAIN dlo[task[t].dl]
              THEN [ev |-> "enclosure", url |-> task[t].url, guid |-> task[t].guid,
                    file |-> dlo[task[t].dl][task[t].guid], fresh |-> TRUE,
                    cancelled |-> task[t].cancelled, probe |-> probe]
              ELSE [ev |-> "enclosureFailed", url |-> task[t].url, guid |-> task[t].guid,
                    why |-> "record"]
        r == Settle(task[t].caller, task[t].url, task[t].guid, ev,
                    PurgeOldMetadata(loc, dlo, roaming, now), player, shell)
    IN  /\ r.ok
        /\ task' = [task EXCEPT ![t] = r.tk]
        /\ player' = r.player
        /\ shell' = r.shell
        /\ SaveLocal(loc, dlo)
        /\ dlobj' = Collect(dlo, local', task')
        /\ last' = ev

\* copyFile(tmpPath, path) is done: the download record is written to the
\* feed object fetched at line 480.
CopyDone(t) ==
    /\ task[t].pc = "copying"
    /\ files' = files \cup {task[t].file}
    /\ LET dlo == [dlobj EXCEPT ![task[t].dl] = MapPut(@, task[t].guid, task[t].file)]
       IN  IF task[t].duration = "none"
           THEN /\ task' = [task EXCEPT ![t].pc = "probing"]
                /\ dlobj' = dlo
                /\ last' = NoEvent
                /\ UNCHANGED <<local, disk, player, shell, settled>>
           ELSE EnclosureReturn(t, local, dlo, "none")
    /\ UNCHANGED <<now, remote, roaming, rdisk, watch>>

\* A variant without the try block around getAudioDuration: its error ends
\* fetchEpisodeEnclosure.
ProbeDoneThrows(t, ok) ==
    /\ task[t].pc = "probing"
    /\ IF ok
       THEN /\ EnclosureReturn(t, PatchDuration(local, task[t].url, task[t].guid, "probed"),
                               dlobj, "ok")
            /\ UNCHANGED <<now, remote, roaming, rdisk, watch, files>>
       ELSE EnclosureThrows(t, "probe")

\* getAudioDuration is done; when it throws (ok = FALSE) the duration stays
\* undefined.
ProbeDone(t, ok) ==
    /\ task[t].pc = "probing"
    /\ EnclosureReturn(t, IF ok THEN PatchDuration(local, task[t].url, task[t].guid, "probed")
                          ELSE local, dlobj, IF ok THEN "ok" ELSE "failed")
    /\ UNCHANGED <<now, remote, roaming, rdisk, watch, files>>

\* ----------------------------------------------------------- Player.play
StoreVars == <<now, remote, local, dlobj, roaming, rdisk, watch, files, disk, settled>>

\* play(feedUrl, guid) with the ShellPlayer being sh: refused while the
\* status is DOWNLOADING, otherwise lines 194-201 and the start of
\* fetchEpisodeEnclosure.  The calls are anonymous: a new one takes the least
\* free place in `task`.
PlayCall(t, u, g, sh) ==
    /\ task[t].pc = "idle"
    /\ \A x \in Tasks : task[x].pc = "idle" => t <= x
    /\ IF player.status = "DOWNLOADING"
       THEN /\ last' = [ev |-> "playRefused", url |-> u, guid |-> g]
            /\ shell' = sh
            /\ UNCHANGED <<StoreVars, task, player>>
       ELSE StartEnclosure(t, u, g, "player",
                           [player EXCEPT !.feed = u, !.cur = g, !.src = t,
                                           !.status = "DOWNLOADING"], sh)

\* The play command on an episode.
Play(t, u, g) == PlayCall(t, u, g, shell)

\* restart(): stop(), which throws when there is no process, then play() of
\* the current episode from the start.
Restart(t) ==
    /\ player.feed # ""
    /\ shell.process # NoProcess
    /\ PlayCall(t, player.feed, player.cur, ShellStop(shell))

\* The request's 'progress' event: the callback play() handed over.
Progress(t) ==
    /\ task[t].pc = "downloading"
    /\ task[t].caller = "player"
    /\ ~task[t].cancelled
    /\ player' = [player EXCEPT !.status = "DOWNLOADING"]
    /\ last' = NoEvent
    /\ UNCHANGED <<StoreVars, task, shell>>

\* ShellPlayer.play after `await getAudioDuration`: the spawn, or the error
\* that play() catches.
ShellProbeDone(t, ok) ==
    /\ task[t].pc = "opening"
    /\ task' = [task EXCEPT ![t] = Idle]
    /\ IF ok
       THEN /\ FreeProcs(shell) # {}
            /\ player' = Spawn(player, shell, task[t].guid).player
            /\ shell' = Spawn(player, shell, task[t].guid).shell
       ELSE /\ player' = [player EXCEPT !.status = "STOPPED"]
            /\ shell' = shell
    /\ last' = NoEvent
    /\ UNCHANGED StoreVars

\* cancelDownload(): the token of the latest play() is cancelled.
CancelDownload ==
    /\ player.status = "DOWNLOADING"
    /\ player.src \in Tasks
    /\ InFlight(player.src)
    /\ ~task[player.src].cancelled
    /\ TokenCancel(player.src)

\* The interval started on a PLAYING event fires: updateState().
Interval ==
    /\ player.timer \/ player.leaked
    /\ player' = [player EXCEPT !.status = "PLAYING"]
    /\ last' = NoEvent
    /\ UNCHANGED <<StoreVars, task, shell>>

\* Player.storeListeningStatus: the episode is the one of the latest play(),
\* the position is ShellPlayer.position, written down as the audio whose
\* position it is; `completed` tells whether it equals the duration.
ListeningStatus(pl, sh, completed) ==
    [url |-> pl.feed, guid |-> pl.cur, completed |-> completed,
     position |-> IF completed THEN {} ELSE {sh.from}]

\* Storage.storeListeningStatus on the roaming podcasts `roam`.
StoredStatus(roam, st) ==
    [GetOrCreateRoamingEpisode(roam, st.url, st.guid) EXCEPT
        ![st.url].episodes[st.guid] = [completed |-> st.completed,
                                       lastPosition |-> st.position,
                                       lastPlayed |-> now]]

\* The 'close' event of a process, killed or ended by itself: the time of
\* the stop is noted unless one is, and STOPPED makes the Player store the
\* listening status.
ProcessClose(p, completed) ==
    /\ p \in shell.running
    /\ LET sh == [shell EXCEPT !.stopped = TRUE]
           st == ListeningStatus(player, sh, completed)
       IN  /\ player' = SetStatus(player, sh, "STOPPED").player
           /\ shell' = [SetStatus(player, sh, "STOPPED").shell EXCEPT
                           !.running = @ \ {p}, !.plays[p] = ""]
           /\ IF player.feed = ""
              THEN UNCHANGED <<roaming, rdisk>>
              ELSE /\ roaming' = StoredStatus(roaming, st)
                   /\ rdisk' = WriteRoaming(roaming')
           /\ last' = [ev |-> "stopped", proc |-> p, played |-> shell.plays[p],
                       replaced |-> shell.process \notin {p, NoProcess},
                       wrote |-> IF player.feed = "" THEN {} ELSE {st}]
    /\ UNCHANGED <<now, remote, local, dlobj, watch, files, disk, settled, task>>

\* extractStatus on a status line of process p: the position is the one the
\* line states, and a line that finds no position, or the position 0, set
\* fires PLAYING.  `zero` tells whether the line states the position 0, which
\* leaves the position as unset as it was (a line stating 0 after a line
\* that stated more is left out).
StatusLine(p, zero) ==
    /\ shell.statusCmd
    /\ p \in shell.running
    /\ IF zero THEN ~shell.pos ELSE ~shell.pos \/ shell.from # shell.plays[p]
    /\ LET s == IF shell.pos THEN [player |-> player, shell |-> shell]
                ELSE SetStatus(player, shell, "PLAYING")
       IN  /\ player' = s.player
           /\ shell' = IF zero THEN s.shell
                       ELSE [s.shell EXCEPT !.pos = TRUE, !.from = shell.plays[p]]
    /\ last' = NoEvent
    /\ UNCHANGED <<StoreVars, task>>

\* pause(): sendCommand(PAUSE) toggles the status of the shell player.
Pause ==
    /\ shell.process # NoProcess
    /\ LET s == SetStatus(player, shell,
                          IF shell.status = "PLAYING" THEN "PAUSED" ELSE "PLAYING")
       IN  /\ player' = s.player
           /\ shell' = s.shell
    /\ last' = NoEvent
    /\ UNCHANGED <<StoreVars, task>>

\* stop(): ShellPlayer.stop() throws when there is no process.
Stop ==
    /\ shell.process # NoProcess
    /\ shell' = ShellStop(shell)
    /\ last' = NoEvent
    /\ UNCHANGED <<StoreVars, task, player>>

\* ------------------------------------------------------------ starPodcast
\* A variant of the star buttons that writes a new roaming record.
StarPodcastAnew(u, star) ==
    /\ roaming' = [roaming EXCEPT ![u] = NewRoaming(star)]
    /\ roaming' # roaming
    /\ rdisk' = WriteRoaming(roaming')
    /\ last' = NoEvent
    /\ UNCHANGED <<now, remote, local, dlobj, files, disk, watch, task, player, shell, settled>>

\* The star buttons of the podcast view: starPodcast and
\* saveMetadata({roaming: true}).
StarPodcast(u, star) ==
    /\ roaming' = [roaming EXCEPT ![u] = [GetOrCreateRoamingPodcast(roaming, u)
                                            EXCEPT !.starred = star]]
    /\ roaming' # roaming
    /\ rdisk' = WriteRoaming(roaming')
    /\ last' = NoEvent
    /\ UNCHANGED <<now, remote, local, dlobj, files, disk, watch, task, player, shell, settled>>

\* --------------------------------------------------- storeListeningStatus
\* The arguments the Player passes (player.ts:148-152): completed without a
\* position, or not completed with the position of the shell player.  A
\* position is {} when undefined, {p} otherwise.
ListeningInputs == {[completed |-> TRUE, position |-> {}],
                    [completed |-> FALSE, position |-> {5}]}

\* A variant that ends with saveMetadata(): the sweep and both files.
StoreListeningStatusSavesAll(u, g, in) ==
    /\ roaming' = [GetOrCreateRoamingEpisode(roaming, u, g) EXCEPT
                      ![u].episodes[g] = [completed |-> in.completed,
                                          lastPosition |-> in.position,
                                          lastPlayed |-> now]]
    /\ rdisk' = WriteRoaming(roaming')
    /\ local' = PurgeOldMetadata(local, dlobj, roaming', now)
    /\ disk' = Stringify(local', dlobj)
    /\ last' = [ev |-> "listened", url |-> u, guid |-> g, completed |-> in.completed,
                position |-> in.position, created |-> ~roaming[u].exists]
    /\ UNCHANGED <<now, remote, dlobj, files, watch, task, player, shell, settled>>

\* storeListeningStatus(u, g, completed, position) with its save.
StoreListeningStatus(u, g, in) ==
    /\ roaming' = [GetOrCreateRoamingEpisode(roaming, u, g) EXCEPT
                      ![u].episodes[g] = [completed |-> in.completed,
                                          lastPosition |-> in.position,
                                          lastPlayed |-> now]]
    /\ rdisk' = WriteRoaming(roaming')
    /\ last' = [ev |-> "listened", url |-> u, guid |-> g, completed |-> in.completed,
                position |-> in.position, created |-> ~roaming[u].exists]
    /\ UNCHANGED <<now, remote, local, dlobj, files, disk, watch, task, player, shell, settled>>

\* ------------------------------------------------------------ OPML import
\* starPodcast(u, true) on the roaming podcasts `roam`.
Starred(roam, u) ==
    [roam EXCEPT ![u] = [GetOrCreateRoamingPodcast(roam, u) EXCEPT !.starred = TRUE]]

\* A variant of the loop's body that stars the feed whether or not it was
\* loaded.
AfterFetchStarsAnyway(roam, u, ok) == Starred(roam, u)

\* The loop's body after `await fetchPodcast(feedUrl)` (lines 52-59): the
\* catch block goes on with the next item, otherwise the feed is starred.
AfterFetch(roam, u, ok) == IF ok THEN Starred(roam, u) ELSE roam

\* The loop over the items `rest` as far as it gets without a request: the
\* cached podcasts are starred, the first one that is not cached is fetched.
RECURSIVE ImportLoop(_, _)
ImportLoop(rest, roam) ==
    IF rest = <<>> THEN [rest |-> rest, roam |-> roam, cached |-> {}]
    ELSE IF HasLocalPodcast(Head(rest))
    THEN LET r == ImportLoop(Tail(rest), AfterFetch(roam, Head(rest), TRUE))
         IN  [r EXCEPT !.cached = @ \cup {Head(rest)}]
    ELSE [rest |-> rest, roam |-> roam, cached |-> {}]

\* The import goes on with the items `rest`, the roaming podcasts being roam
\* and `imp` its record: up to the next updatePodcast, or to the end of the
\* loop and the saveMetadata() after it.  Caller i is the command, caller t
\* its fetchPodcast call.
ImportContinue(t, i, rest, roam, imp) ==
    LET r == ImportLoop(rest, roam)
        now1 == [imp EXCEPT !.rest = r.rest, !.loaded = @ \cup r.cached]
    IN  /\ roaming' = r.roam
        /\ IF r.rest = <<>>
           THEN /\ task' = [task EXCEPT ![t] = Idle, ![i] = Idle]
                /\ local' = PurgeOldMetadata(local, dlobj, r.roam, now)
                /\ settled' = [u \in Urls |->
                                 settled[u] /\ u \notin PurgedUrls(local, dlobj, r.roam, now)]
                /\ disk' = Stringify(local', dlobj)
                /\ rdisk' = WriteRoaming(r.roam)
                /\ last' = [ev |-> "imported", items |-> imp.items, loaded |-> now1.loaded,
                            failed |-> imp.failed, before |-> imp.before]
           ELSE /\ task' = [task EXCEPT
                               ![t] = BeginUpdate(t, "update", Head(r.rest), "", {}, "import"),
                               ![i] = now1]
                /\ last' = NoEvent
                /\ UNCHANGED <<local, settled, disk, rdisk>>
        /\ UNCHANGED <<now, remote, dlobj, files, watch, player, shell>>

\* ImportFromOPMLCommand.run on the feeds `items` of the OPML file, from the
\* loop on.
ImportRun(t, i, items) ==
    /\ t # i
    /\ task[t].pc = "idle"
    /\ task[i].pc = "idle"
    /\ ImportContinue(t, i, items, roaming,
                      [pc |-> "importing", op |-> "import", items |-> items, rest |-> items,
                       loaded |-> {}, failed |-> {}, before |-> roaming, saved |-> rdisk])

\* fetchPodcast has settled: the loop's body goes on, and the loop with it.
\* The code runs in the turn of the event loop in which updatePodcast ended.
ImportResume(t, i) ==
    /\ task[t].pc = "fetched"
    /\ task[i].pc = "importing"
    /\ LET u == task[t].url
           ok == task[t].ok
       IN  ImportContinue(t, i, Tail(task[i].rest), AfterFetch(roaming, u, ok),
                          [task[i] EXCEPT !.loaded = IF ok THEN @ \cup {u} ELSE @,
                                          !.failed = IF ok THEN @ ELSE @ \cup {u}])

\* ----------------------------------------------- saveMetadata, step by step
\* Storage.starPodcast alone, as the import commands call it: the save is
\* a call of its own.  A save that is writing then neither repeats the save
\* before it nor is repeated by the next one.
StorageStarPodcast(u, star) ==
    /\ \A t \in Tasks : task[t].pc # "dead"
    /\ roaming' = [roaming EXCEPT ![u] = [GetOrCreateRoamingPodcast(roaming, u)
                                            EXCEPT !.starred = star]]
    /\ roaming' # roaming
    /\ task' = [t \in Tasks |-> IF task[t].pc = "writing"
                                 THEN [task[t] EXCEPT !.again = FALSE, !.clean = FALSE]
                                 ELSE task[t]]
    /\ last' = [ev |-> "starred", url |-> u, star |-> star]
    /\ UNCHANGED <<now, remote, local, dlobj, files, disk, rdisk, watch, player, shell, settled>>

SaveOpts == {"all", "local", "roaming"}

Writing(file, doc, opts, again, old) ==
    [pc |-> "writing", file |-> file, doc |-> doc, opts |-> opts, again |-> again,
     clean |-> TRUE, old |-> old]

\* saveMetadata(opts) up to its first await: the purge sweep and the call of
\* writeFile for local.json, or the call of writeFile for roaming.json.
\* `again` tells that the call follows a save with the same options at once.
SaveMetadata(t, opts) ==
    /\ task[t].pc = "idle"
    /\ LET again == last.ev = "saved" /\ last.opts = opts /\ last.clean
           old == [local |-> disk, roaming |-> rdisk.doc]
       IN  IF opts \in {"all", "local"}
           THEN /\ local' = PurgeOldMetadata(local, dlobj, roaming, now)
                /\ settled' = [u \in Urls |->
                                 settled[u] /\ u \notin PurgedUrls(local, dlobj, roaming, now)]
                /\ task' = [task EXCEPT ![t] =
                               Writing("local", Stringify(local', dlobj), opts, again, old)]
           ELSE /\ task' = [task EXCEPT ![t] = Writing("roaming", roaming, opts, again, old)]
                /\ UNCHANGED <<local, settled>>
    /\ last' = NoEvent
    /\ UNCHANGED <<now, remote, dlobj, roaming, files, disk, rdisk, watch, player, shell>>

\* A writeFile has written its file: saveMetadata goes on with roaming.json
\* or returns.
WriteFileDone(t) ==
    /\ task[t].pc = "writing"
    /\ IF task[t].file = "local"
       THEN /\ disk' = task[t].doc
            /\ rdisk' = rdisk
       ELSE /\ rdisk' = [doc |-> task[t].doc, mtime |-> now]
            /\ disk' = disk
    /\ IF task[t].file = "local" /\ task[t].opts = "all"
       THEN /\ task' = [task EXCEPT ![t] = [@ EXCEPT !.file = "roaming", !.doc = roaming]]
            /\ last' = NoEvent
       ELSE /\ task' = [task EXCEPT ![t] = Idle]
            /\ last' = [ev |-> "saved", opts |-> task[t].opts, again |-> task[t].again,
                        clean |-> task[t].clean, old |-> task[t].old]
    /\ UNCHANGED <<now, remote, local, dlobj, roaming, files, watch, player, shell, settled>>

\* The contents a file may hold when the process dies: a file no writeFile
\* is writing keeps its content; one that fs.writeFile has opened (flag 'w':
\* truncated, then written piece by piece) holds the old document, the new
\* one, or a part of the new one.
CrashContents(file, content) ==
    {content}
    \cup UNION {{task[t].doc, Torn} :
                  t \in {x \in Tasks : task[x].pc = "writing" /\ task[x].file = file}}

\* The extension host dies.
Crash ==
    /\ \A t \in Tasks : task[t].pc # "dead"
    /\ disk' \in CrashContents("local", disk)
    /\ \E doc \in CrashContents("roaming", rdisk.doc) :
          rdisk' = IF doc = rdisk.doc THEN rdisk ELSE [doc |-> doc, mtime |-> now]
    /\ task' = [t \in Tasks |-> Dead]
    /\ last' = [ev |-> "crashed", old |-> [local |-> disk, roaming |-> rdisk.doc],
                new |-> [local |-> CrashContents("local", disk) \ {Torn},
                         roaming |-> CrashContents("roaming", rdisk.doc) \ {Torn}]]
    /\ UNCHANGED <<now, remote, local, dlobj, roaming, files, watch, player, shell, settled>>

\* JSON.parse of local.json: every podcast gets a `downloaded` object of its
\* own.
DlOf(u) == IF u \in OneUrl THEN 1 ELSE 2

ParseLocal(doc) ==
    [u \in Urls |->
        IF doc[u].exists
        THEN [exists |-> TRUE, episodes |-> doc[u].episodes, dl |-> DlOf(u),
              lastRefreshed |-> doc[u].lastRefreshed]
        ELSE NoPodcast]

ParseDownloaded(doc) ==
    [i \in DlIds |->
        IF \E u \in Urls : doc[u].exists /\ DlOf(u) = i
        THEN doc[CHOOSE u \in Urls : doc[u].exists /\ DlOf(u) = i].downloaded
        ELSE EmptyMap]

\* The extension is activated again: loadMetadata.  JSON.parse throws on a
\* document that is not complete, and the activation fails.
LoadMetadata ==
    /\ \A t \in Tasks : task[t].pc = "dead"
    /\ disk # Torn
    /\ rdisk.doc # Torn
    /\ local' = ParseLocal(disk)
    /\ dlobj' = ParseDownloaded(disk)
    /\ roaming' = rdisk.doc
    /\ task' = [t \in Tasks |-> Idle]
    /\ settled' = [u \in Urls |-> FALSE]
    /\ last' = NoEvent
    /\ UNCHANGED <<now, remote, files, disk, rdisk, watch, player, shell>>

\* ------------------------------------------------ the watch on roaming.json
\* The store that watches roaming.json is not among the sources (its callers
\* are: extension.ts:71 and 95); these definitions follow the specification
\* of the repository, section 5.  Time is in seconds here.
GraceWindow == 5
WatchSteps == {1, GraceWindow}

WatchTick(d) ==
    /\ now + d <= MaxClock
    /\ Tick(d)

\* A variant of the test that takes every change for a change from outside.
IsExternalChangeAlways(mtime, lastSave) == TRUE

\* The test of the change handler: the file was modified later than the
\* store's own last save plus the grace window.
IsExternalChange(mtime, lastSave) == mtime > lastSave + GraceWindow

\* The star buttons on the watching store: the save notes its time, and the
\* write raises a change event as every write does.
WatchedStarPodcast(u, star) ==
    /\ roaming' = [roaming EXCEPT ![u] = [GetOrCreateRoamingPodcast(roaming, u)
                                            EXCEPT !.starred = star]]
    /\ roaming' # roaming
    /\ rdisk' = WriteRoaming(roaming')
    /\ watch' = [lastSave |-> now, event |-> TRUE]
    /\ last' = NoEvent
    /\ UNCHANGED <<now, remote, local, dlobj, files, disk, task, player, shell, settled>>

\* The documents a sync tool may put in the place of roaming.json.
ExternalDocs == OnOneUrl({NoRoaming, NewRoaming(TRUE), NewRoaming(FALSE)}, NoRoaming)

\* A sync tool replaces roaming.json.
ExternalWrite(doc) ==
    /\ doc # rdisk.doc
    /\ rdisk' = [doc |-> doc, mtime |-> now]
    /\ watch' = [watch EXCEPT !.event = TRUE]
    /\ last' = NoEvent
    /\ UNCHANGED <<now, remote, local, dlobj, roaming, files, disk, task, player, shell, settled>>

\* The debounced 'change' event of the FileWatcher reaches the store.
OnRoamingChanged ==
    /\ watch.event
    /\ watch' = [watch EXCEPT !.event = FALSE]
    /\ roaming' = IF IsExternalChange(rdisk.mtime, watch.lastSave) THEN rdisk.doc ELSE roaming
    /\ last' = [ev |-> "changed", mtime |-> rdisk.mtime, lastSave |-> watch.lastSave,
                before |-> roaming]
    /\ UNCHANGED <<now, remote, local, dlobj, files, disk, rdisk, task, player, shell, settled>>

\* ------------------------------------------------------------ feed parser
\* A number of JavaScript is {n}; NaN is {}.
NaN == {}
Plus(a, b) == {x + y : x \in a, y \in b}
Times(a, b) == {x * y : x \in a, y \in b}

\* parseInt on a component of a duration text: a sequence of decimal digits.
RECURSIVE ParseInt(_)
ParseInt(ds) ==
    IF ds = <<>> THEN NaN
    ELSE IF Len(ds) = 1 THEN {ds[1]}
    ELSE Plus(Times({10}, ParseInt(SubSeq(ds, 1, Len(ds) - 1))), {ds[Len(ds)]})

\* A variant of the steps that counts every component in sixties.
StepsOfSixty == <<60, 60, 60>>

\* const steps = [60, 60, 24]
Steps == <<60, 60, 24>>

\* steps[k]: undefined beyond the array, and a product with undefined is NaN.
StepAt(k) == IF k + 1 \in DOMAIN Steps THEN {Steps[k + 1]} ELSE NaN

\* var muliplier = 1; while (index--) { muliplier *= steps[index] }
RECURSIVE Multiplier(_)
Multiplier(index) ==
    IF index = 0 THEN {1} ELSE Times(Multiplier(index - 1), StepAt(index - 1))

\* text.split(':').reverse().reduce(...): `parts` are the components from
\* the right, `index` is the index of the first of them.
RECURSIVE ReduceDuration(_, _)
ReduceDuration(parts, index) ==
    IF parts = <<>> THEN {0}
    ELSE Plus(Times(ParseInt(Head(parts)), Multiplier(index)),
              ReduceDuration(Tail(parts), index + 1))

Reverse(xs) == [i \in 1..Len(xs) |-> xs[Len(xs) + 1 - i]]

\* The itunes:duration handler on a text of colon-separated components.
ParseDuration(text) == ReduceDuration(Reverse(text), 0)

\* The components of the duration texts: "0", "1", "5", "03", "13", "30".
DurationParts == {<<0>>, <<1>>, <<5>>, <<0, 3>>, <<1, 3>>, <<3, 0>>}
DurationTexts == UNION {[1..n -> DurationParts] : n \in 1..MaxComps}

\* The parser meets an itunes:duration element with the text `text`.  The
\* parser keeps nothing from one call to the next: a behaviour is one call.
ParseDurationText(text) ==
    /\ last = NoEvent
    /\ last' = [ev |-> "duration", text |-> text, duration |-> ParseDuration(text)]
    /\ UNCHANGED <<now, remote, local, dlobj, roaming, rdisk, watch, files, disk, task, player,
                   shell, settled>>

\* The items of a feed document: guid, the url of the enclosure element,
\* pubDate and the text of itunes:duration, each {} when the element is
\* missing and {x} otherwise.
FeedItems ==
    [guid : {{}, {"a"}}, url : {{}, {"x"}, {"y"}}, published : {{}, {1}, {2}},
     duration : {{}, {<<<<5>>, <<3, 0>>>>}}]

\* The well-formed documents: their items in the order of the document.
FeedDocs == UNION {[1..n -> FeedItems] : n \in 0..MaxItems}

\* Array.prototype.sort with the comparator of onend: stable, by date
\* descending.
RECURSIVE SortByDate(_)
SortByDate(items) ==
    IF items = <<>> THEN <<>>
    ELSE LET x == items[Len(items)]
             sorted == SortByDate(SubSeq(items, 1, Len(items) - 1))
             k == Cardinality({i \in DOMAIN sorted :
                                 \A d \in sorted[i].published : \A e \in x.published : d >= e})
         IN  SubSeq(sorted, 1, k) \o <<x>> \o SubSeq(sorted, k + 1, Len(sorted))

\* parse(document): the episodes, or the TypeError of the comparator
\* (item.published.getTime() on an item without pubDate) that `reject`
\* hands on.  The comparator is called on every item of two or more.
Parse(doc) ==
    IF Len(doc) >= 2 /\ \E i \in DOMAIN doc : doc[i].published = {}
    THEN [ok |-> FALSE]
    ELSE [ok |-> TRUE, episodes |-> SortByDate(doc)]

\* The value of a field that is not missing.
The(field) == CHOOSE x \in field : TRUE

\* A variant that files every episode under the URL of its enclosure.
EpisodeKeyByUrl(item) == The(item.url)

\* episode.guid || episode.enclosure.url
EpisodeKey(item) == IF item.guid # {} THEN The(item.guid) ELSE The(item.url)

\* The duration parse() hands over, and `episode.duration ? episode.duration
\* : undefined`: 0 and NaN become undefined.
StoredDuration(item) ==
    LET d == UNION {ParseDuration(text) : text \in item.duration}
    IN  IF d = {0} THEN {} ELSE d

\* The loop of loadPodcastFeed over the parsed episodes: the map after the
\* first n of them.
RECURSIVE EpisodesOf(_, _)
EpisodesOf(items, n) ==
    IF n = 0 THEN EmptyMap
    ELSE IF items[n].url = {} THEN EpisodesOf(items, n - 1)
    ELSE MapPut(EpisodesOf(items, n - 1), EpisodeKey(items[n]),
                [published |-> items[n].published, duration |-> StoredDuration(items[n]),
                 enclosureUrl |-> items[n].url])

\* loadPodcastFeed on the document the server sent: it throws when parse
\* rejects, and when the document has no item (podcast.episodes is undefined
\* and the loop cannot iterate over it).
LoadPodcastFeed(doc) ==
    IF ~Parse(doc).ok \/ doc = <<>> THEN [ok |-> FALSE]
    ELSE [ok |-> TRUE, episodes |-> EpisodesOf(Parse(doc).episodes, Len(doc))]

LoadDocument(doc) ==
    /\ last = NoEvent
    /\ last' = [ev |-> "feed", doc |-> doc, page |-> LoadPodcastFeed(doc)]
    /\ UNCHANGED <<now, remote, local, dlobj, roaming, rdisk, watch, files, disk, task, player,
                   shell, settled>>

\* ---------------------------------------------------------- specification
\* The store with one caller at a time.
Solo == {1}

Next ==
    \/ \E t \in Solo, u \in OneUrl : UpdatePodcast(t, u)
    \/ \E t \in Solo, u \in OneUrl, bound \in BoundInputs : FetchPodcastCached(t, u, bound)
    \/ \E t \in Solo, u \in OneUrl, bound \in BoundInputs : FetchPodcastUpdate(t, u, bound)
    \/ \E t \in Solo, pg \in Pages, linkOk \in BOOLEAN : LoadPage(t, pg, linkOk)
    \/ \E t \in Solo : LoadPageFail(t)
    \/ \E t \in Solo, pg \in Pages, linkOk \in BOOLEAN : UpdateFinish(t, pg, linkOk)
    \/ \E t \in Solo, u \in OneUrl, g \in Guids : FetchEnclosureCached(t, u, g)
    \/ \E t \in Solo, u \in OneUrl, g \in Guids : FetchEnclosureUpdate(t, u, g)
    \/ \E t \in Solo : DownloadFinish(t)
    \/ \E t \in Solo, why \in {"error", "cancelled"} : DownloadFail(t, why)
    \/ \E t \in Solo : CancelToken(t)
    \/ \E t \in Solo : CopyDone(t)
    \/ \E t \in Solo, ok \in BOOLEAN : ProbeDone(t, ok)

Spec == Init /\ [][Next]_vars

\* The cache over time: refreshes, the staleness bound and the purge sweep.
NextStale ==
    \/ \E d \in TickSteps : Tick(d)
    \/ \E u \in OneUrl, star \in BOOLEAN : StarPodcast(u, star)
    \/ \E t \in Solo, u \in OneUrl : UpdatePodcast(t, u)
    \/ \E t \in Solo, u \in OneUrl, bound \in BoundInputs : FetchPodcastCached(t, u, bound)
    \/ \E t \in Solo, u \in OneUrl, bound \in BoundInputs : FetchPodcastUpdate(t, u, bound)
    \/ \E t \in Solo, pg \in Pages, linkOk \in BOOLEAN : LoadPage(t, pg, linkOk)
    \/ \E t \in Solo : LoadPageFail(t)
    \/ \E t \in Solo, pg \in Pages, linkOk \in BOOLEAN : UpdateFinish(t, pg, linkOk)

SpecStale == Init /\ [][NextStale]_vars

\* Refreshes of a feed that does not change, starting from a fresh install
\* or from the cache of an earlier, single-page version of the feed.
Cached(items) ==
    [exists |-> TRUE, episodes |-> ParsePage(items), dl |-> 1, lastRefreshed |-> ThirtyDays]

InitFeed ==
    /\ now = ThirtyDays
    /\ remote \in OnOneUrl(RemoteFeeds, AnyFeed)
    /\ local \in OnOneUrl({NoPodcast} \cup {Cached(items) : items \in SUBSET Guids}, NoPodcast)
    /\ dlobj = [i \in DlIds |-> EmptyMap]
    /\ roaming = [u \in Urls |-> NoRoaming]
    /\ files = {}
    /\ disk = Stringify(local, dlobj)
    /\ rdisk = [doc |-> roaming, mtime |-> 0]
    /\ watch = NoWatch
    /\ task = [t \in Tasks |-> Idle]
    /\ player = StoppedPlayer
    /\ shell = IdleShell(FALSE)
    /\ settled = [u \in Urls |-> FALSE]
    /\ last = NoEvent

\* The documents are fixed, and with them what getNextPageUrl finds in them:
\* a page whose link cannot be read is a page without a link (next = FALSE).
NextFeed ==
    \/ \E t \in Solo, u \in OneUrl : UpdatePodcast(t, u)
    \/ \E t \in Solo, pg \in Pages : LoadPage(t, pg, TRUE)
    \/ \E t \in Solo : LoadPageFail(t)
    \/ \E t \in Solo, pg \in Pages : UpdateFinish(t, pg, TRUE)

SpecFeed == InitFeed /\ [][NextFeed]_vars

\* The Player on a cached podcast: play() calls, the events of the shell
\* player and of the downloads, the commands of the user.
PlayEpisodes == {"a", "b"}

\* The store of the Player: the podcast is cached, and the episodes `had`
\* were downloaded before.
PlayStore(had) ==
    /\ now = ThirtyDays
    /\ remote = [u \in Urls |-> AnyFeed]
    /\ local \in OnOneUrl({Cached(PlayEpisodes)}, NoPodcast)
    /\ \E name \in [had -> FileNames] :
          /\ \A g \in had : name[g] = Cardinality({x \in had : name[x] <= name[g]})
          /\ name["b"] = 1
          /\ dlobj = [i \in DlIds |-> IF i = 1 THEN name ELSE EmptyMap]
          /\ files = {name[g] : g \in had}
    /\ roaming = [u \in Urls |-> NoRoaming]
    /\ disk = Stringify(local, dlobj)
    /\ rdisk = [doc |-> roaming, mtime |-> 0]
    /\ watch = NoWatch
    /\ task = [t \in Tasks |-> Idle]
    /\ player = StoppedPlayer
    /\ settled = [u \in Urls |-> FALSE]
    /\ last = NoEvent

\* Episode b was downloaded before, episode a was not; the audio player has
\* no status command, and the user neither pauses nor stops.
InitPlay ==
    /\ PlayStore({"b"})
    /\ shell = IdleShell(FALSE)

NextPlay ==
    \/ \E t \in Tasks, u \in OneUrl, g \in PlayEpisodes : Play(t, u, g)
    \/ \E t \in Tasks : Progress(t)
    \/ \E t \in Tasks : DownloadFinish(t)
    \/ \E t \in Tasks, why \in {"error", "cancelled"} : DownloadFail(t, why)
    \/ \E t \in Tasks : CopyDone(t)
    \/ \E t \in Tasks, ok \in BOOLEAN : ProbeDone(t, ok)
    \/ \E t \in Tasks, ok \in BOOLEAN : ShellProbeDone(t, ok)
    \/ CancelDownload
    \/ Interval
    \/ \E p \in Procs, completed \in BOOLEAN : ProcessClose(p, completed)

SpecPlay == InitPlay /\ [][NextPlay]_vars

\* The Player on episodes that were downloaded before, with an audio player
\* of either kind: the commands of the user and the events of the processes.
InitShell ==
    /\ PlayStore(PlayEpisodes)
    /\ shell \in {IdleShell(statusCmd) : statusCmd \in BOOLEAN}

NextShell ==
    \/ \E t \in Tasks, u \in OneUrl, g \in PlayEpisodes : Play(t, u, g)
    \/ \E t \in Tasks : Restart(t)
    \/ \E t \in Tasks, ok \in BOOLEAN : ShellProbeDone(t, ok)
    \/ Interval
    \/ \E p \in Procs, completed \in BOOLEAN : ProcessClose(p, completed)
    \/ \E p \in Procs, zero \in BOOLEAN : StatusLine(p, zero)
    \/ Pause
    \/ Stop

SpecShell == InitShell /\ [][NextShell]_vars

\* The purge sweep: two podcasts, cached with or without a download, that
\* are starred, unstarred and refreshed while time passes.
SweepItems == {{"0"}, {"a"}}
SweepSteps == {ThirtyDays, ThirtyDays + 1}
SweepPages == {[items |-> items, next |-> FALSE] : items \in SweepItems}

CachedAt(items, id) ==
    [exists |-> TRUE, episodes |-> ParsePage(items), dl |-> id, lastRefreshed |-> ThirtyDays]

\* The stores over the two URLs: each podcast is absent or cached, and a
\* cached one may hold the download of its episode "0".
SweepStores ==
    {st \in [loc : [Urls -> {NoPodcast} \cup {CachedAt({"0", "b"}, i) : i \in 1..2}],
             had : SUBSET Urls] :
        /\ \A u \in Urls : st.loc[u].exists => st.loc[u].dl = (IF u \in OneUrl THEN 1 ELSE 2)
        /\ \A u \in st.had : st.loc[u].exists}

InitSweep ==
    /\ now = ThirtyDays
    /\ remote = [u \in Urls |-> AnyFeed]
    /\ \E st \in SweepStores :
          /\ local = st.loc
          /\ dlobj = [i \in DlIds |->
                        IF \E u \in st.had : st.loc[u].dl = i
                        THEN [g \in {"0"} |-> i] ELSE EmptyMap]
          /\ files = {st.loc[u].dl : u \in st.had}
    /\ roaming = [u \in Urls |-> NoRoaming]
    /\ disk = Stringify(local, dlobj)
    /\ rdisk = [doc |-> roaming, mtime |-> 0]
    /\ watch = NoWatch
    /\ task = [t \in Tasks |-> Idle]
    /\ player = StoppedPlayer
    /\ shell = IdleShell(FALSE)
    /\ settled = [u \in Urls |-> FALSE]
    /\ last = NoEvent

NextSweep ==
    \/ \E d \in SweepSteps : Tick(d)
    \/ \E u \in Urls, star \in BOOLEAN : StarPodcast(u, star)
    \/ \E t \in Solo, u \in Urls : UpdatePodcast(t, u)
    \/ \E t \in Solo : LoadPageFail(t)
    \/ \E t \in Solo, pg \in SweepPages : UpdateFinish(t, pg, TRUE)

SpecSweep == InitSweep /\ [][NextSweep]_vars

\* The roaming records: long after the podcasts were cached, they are
\* starred and unstarred, listened to, refreshed and purged.
InitRoam ==
    /\ now = MaxNow
    /\ remote = [u \in Urls |-> AnyFeed]
    /\ \E st \in SweepStores :
          /\ st.had = {}
          /\ local = st.loc
    /\ dlobj = [i \in DlIds |-> EmptyMap]
    /\ files = {}
    /\ roaming = [u \in Urls |-> NoRoaming]
    /\ disk = Stringify(local, dlobj)
    /\ rdisk = [doc |-> roaming, mtime |-> 0]
    /\ watch = NoWatch
    /\ task = [t \in Tasks |-> Idle]
    /\ player = StoppedPlayer
    /\ shell = IdleShell(FALSE)
    /\ settled = [u \in Urls |-> FALSE]
    /\ last = NoEvent

NextRoam ==
    \/ \E u \in Urls, star \in BOOLEAN : StarPodcast(u, star)
    \/ \E u \in Urls, in \in ListeningInputs : StoreListeningStatus(u, "0", in)
    \/ \E t \in Solo, u \in OneUrl : UpdatePodcast(t, u)
    \/ \E t \in Solo : LoadPageFail(t)
    \/ \E t \in Solo, pg \in SweepPages : UpdateFinish(t, pg, TRUE)
    \/ \E t \in Solo, u \in OneUrl : FetchEnclosureCached(t, u, "0")
    \/ \E t \in Solo : DownloadFinish(t)
    \/ \E t \in Solo : DownloadFail(t, "error")
    \/ \E t \in Solo : CopyDone(t)

SpecRoam == InitRoam /\ [][NextRoam]_vars

\* The saves with their writes as steps of their own, and the crash of the
\* process: the files are those of a store that was last saved before its
\* podcasts grew old.
NextSave ==
    \/ \E u \in Urls, star \in BOOLEAN : StorageStarPodcast(u, star)
    \/ \E t \in Solo, opts \in SaveOpts : SaveMetadata(t, opts)
    \/ \E t \in Solo : WriteFileDone(t)
    \/ Crash
    \/ LoadMetadata

SpecSave == InitRoam /\ [][NextSave]_vars

\* Two callers at once, each with a URL of its own: refreshes and
\* fetchPodcast calls on podcasts cached long ago.
Pair == {1, 2}
UrlOf(t) == IF t = 1 THEN "u1" ELSE "u2"

InitPair ==
    /\ now = MaxNow
    /\ remote = [u \in Urls |-> AnyFeed]
    /\ \E st \in SweepStores :
          /\ local = st.loc
          /\ dlobj = [i \in DlIds |->
                        IF \E u \in st.had : st.loc[u].dl = i
                        THEN [g \in {"0"} |-> i] ELSE EmptyMap]
          /\ files = {st.loc[u].dl : u \in st.had}
    /\ roaming \in [Urls -> {NoRoaming, NewRoaming(TRUE)}]
    /\ disk = Stringify(local, dlobj)
    /\ rdisk = [doc |-> roaming, mtime |-> 0]
    /\ watch = NoWatch
    /\ task = [t \in Tasks |-> Idle]
    /\ player = StoppedPlayer
    /\ shell = IdleShell(FALSE)
    /\ settled = [u \in Urls |-> FALSE]
    /\ last = NoEvent

NextPair ==
    \/ \E t \in Pair : UpdatePodcast(t, UrlOf(t))
    \/ \E t \in Pair, bound \in BoundInputs : FetchPodcastCached(t, UrlOf(t), bound)
    \/ \E t \in Pair, bound \in BoundInputs : FetchPodcastUpdate(t, UrlOf(t), bound)
    \/ \E t \in Pair : LoadPageFail(t)
    \/ \E t \in Pair, pg \in SweepPages : UpdateFinish(t, pg, TRUE)

SpecPair == InitPair /\ [][NextPair]_vars

\* Two refreshes of one URL at once, of a feed that changes between their
\* requests.
RacePages == {[items |-> items, next |-> FALSE] : items \in {{"0"}, {"0", "a"}}}

InitRace ==
    /\ now = ThirtyDays
    /\ remote = [u \in Urls |-> AnyFeed]
    /\ local \in OnOneUrl({NoPodcast, CachedAt({"0", "b"}, 1)}, NoPodcast)
    /\ dlobj = [i \in DlIds |-> EmptyMap]
    /\ files = {}
    /\ roaming = [u \in Urls |-> NoRoaming]
    /\ disk = Stringify(local, dlobj)
    /\ rdisk = [doc |-> roaming, mtime |-> 0]
    /\ watch = NoWatch
    /\ task = [t \in Tasks |-> Idle]
    /\ player = StoppedPlayer
    /\ shell = IdleShell(FALSE)
    /\ settled = [u \in Urls |-> FALSE]
    /\ last = NoEvent

NextRace ==
    \/ \E t \in Pair, u \in OneUrl : UpdatePodcast(t, u)
    \/ \E t \in Pair : LoadPageFail(t)
    \/ \E t \in Pair, pg \in RacePages : UpdateFinish(t, pg, TRUE)

SpecRace == InitRace /\ [][NextRace]_vars

\* The watched roaming.json: the store's own saves and those of a sync tool.
InitWatch ==
    /\ now = 0
    /\ remote = [u \in Urls |-> AnyFeed]
    /\ local = [u \in Urls |-> NoPodcast]
    /\ dlobj = [i \in DlIds |-> EmptyMap]
    /\ files = {}
    /\ roaming = [u \in Urls |-> NoRoaming]
    /\ disk = Stringify(local, dlobj)
    /\ rdisk = [doc |-> roaming, mtime |-> 0]
    /\ watch = NoWatch
    /\ task = [t \in Tasks |-> Idle]
    /\ player = StoppedPlayer
    /\ shell = IdleShell(FALSE)
    /\ settled = [u \in Urls |-> FALSE]
    /\ last = NoEvent

NextWatch ==
    \/ \E d \in WatchSteps : WatchTick(d)
    \/ \E u \in OneUrl, star \in BOOLEAN : WatchedStarPodcast(u, star)
    \/ \E doc \in ExternalDocs : ExternalWrite(doc)
    \/ OnRoamingChanged

SpecWatch == InitWatch /\ [][NextWatch]_vars

\* The feed parser on the texts and documents it may be given.
InitParse ==
    /\ Init
    /\ roaming = [u \in Urls |-> NoRoaming]

NextParse ==
    \/ \E text \in DurationTexts : ParseDurationText(text)
    \/ \E doc \in FeedDocs : LoadDocument(doc)

SpecParse == InitParse /\ [][NextParse]_vars

\* A download in flight (caller 1) while another caller (2) refreshes a
\* podcast, the same one or another: two podcasts cached long ago, not
\* starred and without downloads.
HoldEpisodes == {"0", "a"}

InitHold ==
    /\ InitPair
    /\ roaming = [u \in Urls |-> NoRoaming]
    /\ \A u \in Urls : local[u].exists
    /\ files = {}

NextHold ==
    \/ \E u \in Urls, g \in HoldEpisodes : FetchEnclosureCached(1, u, g)
    \/ \E u \in Urls, g \in HoldEpisodes : FetchEnclosureUpdate(1, u, g)
    \/ \E u \in Urls : UpdatePodcast(2, u)
    \/ \E t \in Pair : LoadPageFail(t)
    \/ \E t \in Pair, pg \in SweepPages : UpdateFinish(t, pg, TRUE)
    \/ DownloadFinish(1)
    \/ DownloadFail(1, "error")
    \/ CopyDone(1)
    \/ \E ok \in BOOLEAN : ProbeDone(1, ok)

SpecHold == InitHold /\ [][NextHold]_vars

\* Refreshes of a feed that is a ring, cached or not.  Every request is
\* answered in the end, and the code after the await runs on the answer:
\* the loop's step is weakly fair; a failure of the request is not.
InitRing ==
    /\ now = ThirtyDays
    /\ remote \in {[u \in Urls |-> IF u \in RingUrls THEN f ELSE AnyFeed] : f \in RemoteFeeds}
    /\ local \in {[u \in Urls |-> IF u \in RingUrls THEN x ELSE NoPodcast] :
                     x \in {NoPodcast} \cup {CachedAt(items, 2) : items \in SUBSET Guids}}
    /\ dlobj = [i \in DlIds |-> EmptyMap]
    /\ roaming = [u \in Urls |-> NoRoaming]
    /\ files = {}
    /\ disk = Stringify(local, dlobj)
    /\ rdisk = [doc |-> roaming, mtime |-> 0]
    /\ watch = NoWatch
    /\ task = [t \in Tasks |-> Idle]
    /\ player = StoppedPlayer
    /\ shell = IdleShell(FALSE)
    /\ settled = [u \in Urls |-> FALSE]
    /\ last = NoEvent

LoopStep == \E t \in Solo, pg \in Pages : LoadPage(t, pg, TRUE) \/ UpdateFinish(t, pg, TRUE)

NextRing ==
    \/ \E t \in Solo, u \in RingUrls : UpdatePodcast(t, u)
    \/ \E t \in Solo : LoadPageFail(t)
    \/ LoopStep

RingFair == WF_vars(LoopStep)

SpecRing == InitRing /\ [][NextRing]_vars /\ RingFair

\* The listening status of two episodes of each podcast, stored over and
\* over: completed, or at one of two positions.
ResumeEpisodes == {"0", "b"}
ResumeInputs == ListeningInputs \cup {[completed |-> FALSE, position |-> {7}]}

NextResume ==
    \/ \E u \in Urls, g \in ResumeEpisodes, in \in ResumeInputs : StoreListeningStatus(u, g, in)
    \/ \E u \in Urls, star \in BOOLEAN : StarPodcast(u, star)

SpecResume == InitRoam /\ [][NextResume]_vars

\* The OPML import of one or MaxItems feeds, some of them cached long ago,
\* starred or not; the requests succeed or fail.
ImportItems == UNION {[1..n -> Urls] : n \in 1..MaxItems}

InitImport ==
    /\ now = MaxNow
    /\ remote = [u \in Urls |-> AnyFeed]
    /\ \E st \in SweepStores :
          /\ st.had = {}
          /\ local = st.loc
    /\ dlobj = [i \in DlIds |-> EmptyMap]
    /\ files = {}
    /\ roaming \in [Urls -> {NoRoaming, NewRoaming(FALSE), NewRoaming(TRUE)}]
    /\ disk = Stringify(local, dlobj)
    /\ rdisk = [doc |-> roaming, mtime |-> 0]
    /\ watch = NoWatch
    /\ task = [t \in Tasks |-> Idle]
    /\ player = StoppedPlayer
    /\ shell = IdleShell(FALSE)
    /\ settled = [u \in Urls |-> FALSE]
    /\ last = NoEvent

NextImport ==
    \/ \E items \in ImportItems : ImportRun(1, 2, items)
    \/ ImportResume(1, 2)
    \/ LoadPageFail(1)
    \/ \E pg \in SweepPages : UpdateFinish(1, pg, TRUE)

SpecImport == InitImport /\ [][NextImport]_vars

\* -------------------------------------------------------------- properties
\* Whether the document `doc` of the store holds a podcast u that the purge
\* sweep is to remove at the present time.
Purgeable(doc, u) ==
    /\ doc[u].exists
    /\ ~(roaming[u].exists /\ roaming[u].starred)
    /\ doc[u].downloaded = EmptyMap
    /\ doc[u].lastRefreshed < now - ThirtyDays

\* The episodes and the download records of u as the store holds them.
Episodes(u) == DOMAIN local[u].episodes
Downloaded(u) == dlobj[local[u].dl]

\* C1: after every completed updatePodcast(url), every GUID of
\* local[url].downloaded is a key of local[url].episodes.
C1_DownloadedWithinEpisodes ==
    (last.ev = "updated" /\ local[last.url].exists) =>
        DOMAIN Downloaded(last.url) \subseteq Episodes(last.url)

\* C2 as stated: with old.episodes = {A,B}, page 1 = {A,B} linking to page 2 =
\* {B,C}, updatePodcast leaves episodes = {A,B,C} and requests at most two pages.
C2_Original ==
    \A a, b, c \in Guids :
        (/\ Cardinality({a, b, c}) = 3
         /\ last.ev = "updated"
         /\ last.old.exists /\ DOMAIN last.old.episodes = {a, b}
         /\ remote[last.url] = <<{a, b}, {b, c}>>)
        => (Episodes(last.url) = {a, b, c} /\ last.reqs <= 2)

\* C2 as amended: in that scenario page 1 already overlaps old, so
\* updatePodcast requests page 1 alone and leaves episodes = {A,B}.
C2_OverlapStopsAtFirstPage ==
    \A a, b, c \in Guids :
        (/\ Cardinality({a, b, c}) = 3
         /\ last.ev = "updated"
         /\ last.old.exists /\ DOMAIN last.old.episodes = {a, b}
         /\ remote[last.url] = <<{a, b}, {b, c}>>)
        => (Episodes(last.url) = {a, b} /\ last.reqs = 1)

C2_Witness ==
    /\ last.ev = "updated"
    /\ last.old.exists /\ DOMAIN last.old.episodes = {"a", "b"}
    /\ remote[last.url] = <<{"a", "b"}, {"b", "0"}>>

\* C3 as stated: when a page after the first cannot be loaded, the refresh
\* still succeeds and local[url] holds the episodes of the pages fetched so far.
C3_Original ==
    (last.ev = "updateFailed" /\ last.page > 1) =>
        /\ local[last.url].exists
        /\ DOMAIN last.feed.episodes \subseteq Episodes(last.url)
        /\ local[last.url].lastRefreshed = now

\* C3 as amended: a page after the first that cannot be loaded makes
\* updatePodcast fail like the first page does; the store, local.json and the
\* enclosure files are what they were, the pages fetched so far are dropped.
C3_LaterPageFailureAborts ==
    (last.ev = "updateFailed" /\ last.page > 1) =>
        /\ Stringify(local, dlobj) = last.store
        /\ disk = last.disk
        /\ files = last.files
        /\ \A t \in Solo : task[t].pc = "idle"

C3_Witness ==
    /\ last.ev = "updateFailed" /\ last.page > 1
    /\ last.feed.exists /\ DOMAIN last.feed.episodes # {}
    /\ local[last.url].exists
    /\ ~(DOMAIN last.feed.episodes \subseteq Episodes(last.url))

\* C4: when the first page cannot be loaded, updatePodcast fails, local[url]
\* (episodes, downloaded, lastRefreshed) is what it was and nothing is
\* written to local.json.
C4_FirstPageFailureKeepsStore ==
    (last.ev = "updateFailed" /\ last.page = 1) =>
        /\ Stringify(local, dlobj) = last.store
        /\ disk = last.disk
        /\ files = last.files

C4_Witness ==
    /\ last.ev = "updateFailed" /\ last.page = 1
    /\ local[last.url].exists
    /\ DOMAIN Downloaded(last.url) # {}


\* The calls of downloadFile that have not settled.
Downloads == {t \in Tasks : task[t].pc \in {"downloading", "copying"}}

\* C5: at any time at most one enclosure download is in flight, whatever
\* the interleaving of play() calls, shell-player status events and timer
\* ticks: a play() during a download is refused.
C5_OneDownloadAtATime == Cardinality(Downloads) <= 1

\* C6: when the token was triggered between the start of
\* fetchEpisodeEnclosure and its return, no download record for (feedUrl,
\* guid) is committed and no file is left at the target path.
C6_CancelLeavesNothing ==
    (last.ev = "enclosure" /\ last.cancelled /\ local[last.url].exists) =>
        /\ last.guid \notin DOMAIN Downloaded(last.url)
        /\ last.file \notin files

\* C7: the same episode is never downloaded twice, and every file of the
\* enclosures directory is referenced by a download record.
C7_AtomicRegistration ==
    /\ \A t1, t2 \in Downloads :
          (task[t1].url = task[t2].url /\ task[t1].guid = task[t2].guid) => t1 = t2
    /\ \A t \in Downloads : task[t].guid \notin DOMAIN dlobj[task[t].dl]
    /\ \A f \in files :
          \E u \in Urls : /\ local[u].exists
                          /\ \E g \in DOMAIN Downloaded(u) : Downloaded(u)[g] = f

\* C8 as stated: fetchPodcast(url, T) on a cached url makes no request when
\* now - lastRefreshed < T and fetches when now - lastRefreshed > T; without
\* T a cached url is never refetched, an uncached url is always fetched.
C8_Original ==
    last.ev \in {"cached", "refreshing"} =>
        IF ~local[last.url].exists THEN last.ev = "refreshing"
        ELSE IF last.bound = {} THEN last.ev = "cached"
        ELSE \A T \in last.bound :
                /\ now - local[last.url].lastRefreshed < T => last.ev = "cached"
                /\ now - local[last.url].lastRefreshed > T => last.ev = "refreshing"

\* C8 as amended: updateIfOlderThan is a point in time, not an age.
\* fetchPodcast(url, x) on a cached url makes no request when lastRefreshed
\* >= x and runs updatePodcast once when lastRefreshed < x; the podcast view
\* passes x = now - 7 days, so it refetches exactly when now - lastRefreshed
\* exceeds 7 days. Without x a cached url is never refetched, an uncached url
\* is always fetched.
C8_StalenessBound ==
    last.ev \in {"cached", "refreshing"} =>
        /\ IF ~local[last.url].exists THEN last.ev = "refreshing"
           ELSE IF last.bound = {} THEN last.ev = "cached"
           ELSE \A x \in last.bound :
                   /\ local[last.url].lastRefreshed >= x => last.ev = "cached"
                   /\ local[last.url].lastRefreshed < x => last.ev = "refreshing"
        /\ (local[last.url].exists /\ last.bound = {now - OneWeek}) =>
               (last.ev = "refreshing" <=> now - local[last.url].lastRefreshed > OneWeek)
        /\ last.ev = "cached" => \A t \in Solo : task[t].pc = "idle"
        /\ last.ev = "refreshing" =>
               \A t \in Solo : /\ task[t].pc = "loading" /\ task[t].url = last.url
                                /\ task[t].page = 1 /\ task[t].reqs = 1

C8_Witness ==
    /\ last.ev = "refreshing"
    /\ local[last.url].exists
    /\ last.bound = {now - OneWeek}
    /\ now - local[last.url].lastRefreshed > OneWeek

\* C9: a refresh never discards the download of an episode that is still in
\* the feed: its record is unchanged and its file is still on disk.
C9_KeepsDownloadsOfPresentEpisodes ==
    (last.ev = "updated" /\ local[last.url].exists) =>
        \A g \in DOMAIN last.oldDownloaded :
            g \in Episodes(last.url) =>
                /\ g \in DOMAIN Downloaded(last.url)
                /\ Downloaded(last.url)[g] = last.oldDownloaded[g]
                /\ Downloaded(last.url)[g] \in files

\* C10: a refresh that follows a completed refresh of the same, unchanged
\* remote feed leaves the key set of local[url].episodes as it was.
C10_RefreshIsIdempotent ==
    (last.ev = "updated" /\ last.again /\ local[last.url].exists) =>
        Episodes(last.url) = DOMAIN last.old.episodes

\* C11: the sweep of a local save removes exactly the podcasts without
\* downloads that are not starred and were refreshed more than thirty days
\* ago, whatever their age it keeps a starred podcast and one with a
\* download, and no step removes a local podcast in another way.
C11_PurgeRemovesExactlyTheEligible ==
    [][/\ last'.ev = "updated" =>
            \A u \in Urls :
               Stringify(local', dlobj')[u] =
                  IF Purgeable(last'.swept, u) THEN NoPodcast ELSE last'.swept[u]
       /\ \A u \in Urls :
            local[u].exists /\ ~local'[u].exists =>
               /\ last'.ev = "updated"
               /\ ~(roaming[u].exists /\ roaming[u].starred)
               /\ dlobj[local[u].dl] = EmptyMap \/ u = last'.url
               /\ local[u].lastRefreshed < now - ThirtyDays]_vars

C11_Witness ==
    /\ last.ev = "updated"
    /\ \E u \in Urls : last.swept[u].exists /\ ~local[u].exists

\* C12: storeListeningStatus works without a local podcast: it creates the
\* roaming podcast and episode records it needs, and afterwards getEpisode
\* returns as roaming part the status stored, with lastPlayed the present
\* time.
C12_ListeningStatusIsStored ==
    last.ev = "listened" =>
        /\ roaming[last.url].exists
        /\ GetEpisode(last.url, last.guid).roaming =
              [completed |-> last.completed, lastPosition |-> last.position,
               lastPlayed |-> now]

C12_Witness ==
    /\ last.ev = "listened"
    /\ last.created
    /\ ~local[last.url].exists

\* C13: no step of the store removes a roaming podcast record or a roaming
\* episode record: unstarring keeps the listening records of the podcast,
\* and the purge of a local podcast leaves its roaming record as it is.
C13_RoamingIsNeverPurged ==
    [][\A u \in Urls :
          roaming[u].exists =>
             /\ roaming'[u].exists
             /\ DOMAIN roaming[u].episodes \subseteq DOMAIN roaming'[u].episodes
             /\ local[u].exists /\ ~local'[u].exists => roaming'[u] = roaming[u]]_vars

C13_Witness ==
    /\ last.ev = "updated"
    /\ \E u \in Urls : /\ last.swept[u].exists
                        /\ ~local[u].exists
                        /\ roaming[u].exists
                        /\ ~roaming[u].starred
                        /\ roaming[u].episodes # EmptyMap

\* C14: when the process dies during a save, local.json and roaming.json
\* each hold the complete document they held before or the complete new one,
\* and a save that repeats the save before it leaves the files as they were.
C14_SaveIsAtomicAndIdempotent ==
    /\ last.ev = "crashed" =>
          /\ disk \in {last.old.local} \cup last.new.local
          /\ rdisk.doc \in {last.old.roaming} \cup last.new.roaming
    /\ last.ev = "saved" /\ last.again =>
          /\ disk = last.old.local
          /\ rdisk.doc = last.old.roaming

\* C15: a change event on roaming.json makes the store reload the roaming
\* metadata when the file was modified later than the store's own last save
\* plus the grace window, and makes it reload nothing when the modification
\* falls within the grace window of that save.
C15_ReloadOnExternalChange ==
    last.ev = "changed" =>
        IF last.mtime > last.lastSave + GraceWindow
        THEN roaming = rdisk.doc
        ELSE roaming = last.before

C15_Witness ==
    /\ last.ev = "changed"
    /\ last.lastSave > 0
    /\ last.mtime > last.lastSave + GraceWindow
    /\ roaming # last.before

\* C16 as stated: with calls for different URLs in flight, a call that
\* finishes leaves for its URL the entry it would leave alone, and the
\* entries of the other URLs as they were.
C16_Original ==
    last.ev = "updated" =>
        /\ local[last.url].episodes = Refreshed(last.old, NoFeed, last.seen)
        /\ \A u \in Urls \ {last.url} : Stringify(local, dlobj)[u] = last.swept[u]

\* C16 as amended: the entry of the call's own URL is the one it would leave
\* alone, and the entry of another URL stays as it was unless the sweep of
\* the call's save removes it: a podcast not starred, without downloads,
\* refreshed more than thirty days ago.
C16_IndependentUpToThePurge ==
    last.ev = "updated" =>
        /\ local[last.url].episodes = Refreshed(last.old, NoFeed, last.seen)
        /\ local[last.url].lastRefreshed = now
        /\ \A u \in Urls \ {last.url} :
              \/ Stringify(local, dlobj)[u] = last.swept[u]
              \/ /\ ~local[u].exists
                 /\ ~(roaming[u].exists /\ roaming[u].starred)
                 /\ last.swept[u].downloaded = EmptyMap
                 /\ last.swept[u].lastRefreshed < now - ThirtyDays

C16_Witness ==
    /\ last.ev = "updated"
    /\ \E t \in Pair : task[t].pc = "loading" /\ task[t].url # last.url
                         /\ task[t].old.exists /\ ~local[task[t].url].exists

\* C17: refreshes of one URL are not serialized: a refresh that finishes
\* assigns the entry made from its own snapshot and its own pages, so of the
\* entry another refresh stored meanwhile no episode stays that the snapshot
\* or the pages do not hold; with two refreshes started on the same snapshot
\* the later assignment loses the update of the earlier one.
C17_LaterAssignmentWins ==
    (last.ev = "updated" /\ last.was.exists) =>
        \A g \in DOMAIN last.was.episodes \cap Episodes(last.url) :
            \/ last.old.exists /\ g \in DOMAIN last.old.episodes
            \/ \E i \in DOMAIN last.seen : g \in last.seen[i].items

C17_Witness ==
    /\ last.ev = "updated"
    /\ last.twin
    /\ last.was # last.old
    /\ \E g \in DOMAIN last.was.episodes : g \notin Episodes(last.url)

\* C18: a refresh of a cached podcast requests the pages of the feed in
\* order and goes on from a page to the next exactly when the page holds no
\* GUID of the cached episodes and links to a next page: after a page that
\* overlaps the cache no page is requested, whatever it links to.
C18_OverlapStopsTheRefresh ==
    (last.ev = "updated" /\ last.old.exists) =>
        /\ last.reqs = Len(last.seen)
        /\ \A i \in DOMAIN last.seen :
              /\ last.seen[i].items = remote[last.url][i]
              /\ i < Len(last.seen) <=>
                    /\ last.seen[i].items \cap DOMAIN last.old.episodes = {}
                    /\ last.seen[i].next

C18_Witness ==
    /\ last.ev = "updated"
    /\ last.old.exists
    /\ Len(last.seen) = 1
    /\ last.seen[1].next
    /\ last.seen[1].items \cap DOMAIN last.old.episodes # {}
    /\ remote[last.url][2] \cap DOMAIN last.old.episodes = {}

\* C19: when the download of an enclosure fails with a transport error or
\* a status other than 200, fetchEpisodeEnclosure ends with the error: the
\* store and local.json are what they were, the episode has no download
\* record, and there is no file at the path chosen for the enclosure.
C19_FailedDownloadLeavesNothing ==
    (last.ev = "enclosureFailed" /\ last.why = "error") =>
        /\ \A t \in Solo : task[t].pc = "idle"
        /\ Stringify(local, dlobj) = last.store
        /\ disk = last.disk
        /\ local[last.url].exists => last.guid \notin DOMAIN Downloaded(last.url)
        /\ last.file \notin files

C19_Witness ==
    /\ last.ev = "enclosureFailed"
    /\ last.why = "error"
    /\ local[last.url].exists
    /\ Downloaded(last.url) # EmptyMap

\* C20: fetchEpisodeEnclosure on an episode with a download record returns
\* the file of the record and starts no download; the store, local.json and
\* the enclosure files are what they were.
C20_DownloadedEnclosureIsReturned ==
    /\ last.ev = "downloadStarted" =>
          last.guid \notin DOMAIN Downloaded(last.url)
    /\ (last.ev = "enclosure" /\ ~last.fresh) =>
          /\ last.file = Downloaded(last.url)[last.guid]
          /\ \A t \in Solo : task[t].pc = "idle"
          /\ Stringify(local, dlobj) = last.store
          /\ disk = last.disk
          /\ files = last.files

C20_Witness ==
    /\ last.ev = "enclosure"
    /\ ~last.fresh
    /\ last.file \in files

\* C21: the downloaded file is probed exactly when the feed states no
\* duration for the episode; when the probe fails the duration stays unset
\* and fetchEpisodeEnclosure still returns the path: the download record is
\* in the store and in local.json, and the file is in the enclosures
\* directory.
C21_ProbeFailureKeepsTheDownload ==
    [][\A t \in Tasks :
          /\ (task[t].pc = "copying" /\ task'[t].pc # "copying") =>
                IF task[t].duration = "none"
                THEN task'[t].pc = "probing"
                ELSE last'.ev = "enclosure" /\ last'.probe = "none"
          /\ (task[t].pc = "probing" /\ task'[t].pc # "probing") =>
                LET u == task[t].url
                    g == task[t].guid
                IN  /\ last'.ev = "enclosure"
                    /\ last'.probe \in {"ok", "failed"}
                    /\ last'.file = task[t].file
                    /\ last'.file \in files'
                    /\ local'[u].exists
                    /\ g \in DOMAIN dlobj'[local'[u].dl]
                    /\ dlobj'[local'[u].dl][g] = last'.file
                    /\ disk' = Stringify(local', dlobj')
                    /\ local'[u].episodes[g].duration =
                          (IF last'.probe = "ok" THEN "probed" ELSE "none")]_vars

C21_Witness ==
    /\ last.ev = "enclosure"
    /\ last.fresh
    /\ last.probe = "failed"
    /\ local[last.url].episodes[last.guid].duration = "none"
    /\ disk[last.url].downloaded[last.guid] = last.file

\* C22: the store persists on every mutation: when updatePodcast,
\* fetchEpisodeEnclosure, starPodcast or storeListeningStatus has completed,
\* local.json and roaming.json hold the podcasts the store holds in memory.
C22_PersistsOnEveryMutation ==
    (\/ last.ev \in {"updated", "listened", "starred"}
     \/ last.ev = "enclosure" /\ last.fresh)
    => /\ disk = Stringify(local, dlobj)
       /\ rdisk.doc = roaming

\* The value of a component, and the sum of value * 60^position over the
\* components, the positions counted from the right.
PartValue(ds) == IF Len(ds) = 1 THEN ds[1] ELSE 10 * ds[1] + ds[2]

RECURSIVE SumOfSixties(_)
SumOfSixties(text) ==
    IF text = <<>> THEN 0
    ELSE PartValue(text[Len(text)]) + 60 * SumOfSixties(SubSeq(text, 1, Len(text) - 1))

\* C23 as stated: a duration text of colon-separated integer components is
\* converted to the sum of value * 60^position, the positions counted from
\* the right, for every number of components.
C23_Original ==
    last.ev = "duration" => last.duration = {SumOfSixties(last.text)}

\* C23 as amended: up to three components are seconds, minutes and hours
\* (value * 60^position); a fourth component from the right counts days of
\* 24 hours, and a text of five or more components gives NaN.
C23_DurationInSecondsMinutesHoursDays ==
    last.ev = "duration" =>
        LET parts == Reverse(last.text)
            n == Len(parts)
            at(i, unit) == IF i <= n THEN PartValue(parts[i]) * unit ELSE 0
        IN  last.duration =
              IF n >= 5 THEN NaN
              ELSE {at(1, 1) + at(2, 60) + at(3, 3600) + at(4, 86400)}

C23_Witness ==
    /\ last.ev = "duration"
    /\ last.text = <<<<1>>, <<1>>, <<0, 3>>, <<1, 3>>>>
    /\ last.duration = {86400 + 3793}

\* The items of a document that have an enclosure.
WithEnclosure(doc) == {i \in DOMAIN doc : doc[i].url # {}}

\* C24: every episode kept from a parsed page is stored under its GUID, or
\* under the URL of its enclosure when it has no GUID, whatever else the
\* document holds and wherever the episode stands in it; an episode without
\* an enclosure gets no key.
C24_IdentityFallback ==
    (last.ev = "feed" /\ last.page.ok) =>
        /\ \A i \in WithEnclosure(last.doc) :
              \E k \in (IF last.doc[i].guid # {} THEN last.doc[i].guid ELSE last.doc[i].url) :
                  k \in DOMAIN last.page.episodes
        /\ \A k \in DOMAIN last.page.episodes :
              \E i \in WithEnclosure(last.doc) :
                  \/ last.doc[i].guid = {k}
                  \/ last.doc[i].guid = {} /\ last.doc[i].url = {k}

C24_Witness ==
    /\ last.ev = "feed"
    /\ last.page.ok
    /\ Len(last.doc) = 2
    /\ last.doc[1].guid = {} /\ last.doc[1].url = {"x"}
    /\ last.doc[2].guid = {"a"} /\ last.doc[2].url = {}
    /\ DOMAIN last.page.episodes = {"x"}

\* C25: a well-formed feed in which episodes have no publish date, no
\* duration or no GUID is parsed, for any number of episodes, and each of
\* its episodes with an enclosure (and an identity no other episode of the
\* document has) is stored with the missing fields unset.
C25_MissingFieldsAreTolerated ==
    (last.ev = "feed" /\ Len(last.doc) >= 1) =>
        /\ last.page.ok
        /\ \A i \in WithEnclosure(last.doc) :
              (\A j \in WithEnclosure(last.doc) \ {i} :
                    EpisodeKey(last.doc[j]) # EpisodeKey(last.doc[i]))
              => \E k \in DOMAIN last.page.episodes :
                    /\ last.page.episodes[k].enclosureUrl = last.doc[i].url
                    /\ last.page.episodes[k].published = last.doc[i].published
                    /\ last.doc[i].duration = {} => last.page.episodes[k].duration = {}

\* C26: no fetched episode is lost by a refresh: after updatePodcast(url)
\* succeeded, local[url].episodes holds every episode of every page fetched
\* during the refresh, the pages fetched before the page that overlaps the
\* cache included.
C26_NoFetchedEpisodeIsLost ==
    (last.ev = "updated" /\ local[last.url].exists) =>
        \A i \in DOMAIN last.seen : last.seen[i].items \subseteq Episodes(last.url)

\* C27: the listening status is stored for the episode that was playing:
\* when a process stops and the Player stores the status, the episode it
\* writes is the one the stopped process played, and a position it writes
\* is the position of that playback.
C27_StatusOfTheEpisodePlayed ==
    last.ev = "stopped" =>
        \A st \in last.wrote :
            /\ st.guid = last.played
            /\ st.position \subseteq {last.played}

\* C28: when fetchEpisodeEnclosure returns the path of a file it has just
\* downloaded, the podcast is in the store, its `downloaded` object of the
\* store maps the GUID to that file (isEpisodeDownloaded is true), and
\* local.json says the same, whatever refresh ran while the download was
\* awaited.
C28_ReturnedEnclosureIsRecorded ==
    (last.ev = "enclosure" /\ last.fresh) =>
        /\ local[last.url].exists
        /\ last.guid \in DOMAIN Downloaded(last.url)
        /\ Downloaded(last.url)[last.guid] = last.file
        /\ disk = Stringify(local, dlobj)

\* C29: while the fetchEpisodeEnclosure call of the latest play() is in
\* flight and its token is not cancelled, the status of the Player is
\* DOWNLOADING.
C29_DownloadingUntilTheDownloadEnds ==
    \A t \in Tasks :
        (/\ player.src = t
         /\ InFlight(t)
         /\ task[t].caller = "player"
         /\ ~task[t].cancelled)
        => player.status = "DOWNLOADING"

\* C30: the close event of a process that a later play() replaced, the
\* later process still being the current one, changes neither the status
\* nor the time of the stop that freezes the position.
C30_CloseOfAReplacedProcess ==
    [][(last'.ev = "stopped" /\ last'.replaced) =>
          /\ shell'.status = shell.status
          /\ player'.status = player.status
          /\ shell'.stopped = shell.stopped]_vars

\* C31: the Player has at most one interval running, and while the shell
\* player and the Player say STOPPED and no play() is on its way, no step
\* other than a command to the shell player makes the Player say anything
\* else.
C31_OneTimerAndStoppedStays ==
    [][/\ ~(player'.timer /\ player'.leaked)
       /\ (/\ player.status = "STOPPED"
           /\ shell.status = "STOPPED"
           /\ shell' = shell
           /\ task' = task) => player'.status = "STOPPED"]_vars

\* C32: updatePodcast terminates: a refresh that has started comes to its
\* end, with the podcast stored or with the error of a request.
C32_UpdatePodcastTerminates ==
    \A t \in Solo : (task[t].pc = "loading") ~> (task[t].pc = "idle")

\* C33: a play() whose download was cancelled does not start the playback:
\* when its fetchEpisodeEnclosure call has returned the file, the Player
\* says STOPPED, no process plays the episode and none is being opened.
C33_CancelledPlayDoesNotStart ==
    (last.ev = "enclosure" /\ last.fresh /\ last.cancelled) =>
        /\ player.status = "STOPPED"
        /\ \A p \in shell.running : shell.plays[p] # last.guid
        /\ \A t \in Tasks : task[t].pc # "opening"

\* C34: old wins: after a refresh of a cached podcast, every episode that is
\* in the cached entry and in a page fetched has the record of the cached
\* entry, and with it the duration probed from its file.
C34_OldWinsOnConflict ==
    (last.ev = "updated" /\ last.old.exists /\ local[last.url].exists) =>
        \A g \in DOMAIN last.old.episodes :
            (\E i \in DOMAIN last.seen : g \in last.seen[i].items) =>
                /\ g \in Episodes(last.url)
                /\ local[last.url].episodes[g] = last.old.episodes[g]

C34_Witness ==
    /\ last.ev = "updated"
    /\ last.old.exists
    /\ "a" \in DOMAIN last.old.episodes
    /\ last.old.episodes["a"].duration = "probed"
    /\ "a" \in last.seen[Len(last.seen)].items
    /\ local[last.url].exists
    /\ local[last.url].episodes["a"].duration = "probed"

\* C35: after storeListeningStatus(u, g, false, p) with p > 0 the last
\* listening position of (u, g) is p, after storeListeningStatus(u, g, true)
\* it is 0, and the position of every other episode is what it was; without
\* a roaming record of the podcast or of the episode the position is 0.
C35_ResumeRoundTrip ==
    [][/\ \A u \in Urls, g \in Guids :
             (~roaming[u].exists \/ g \notin DOMAIN roaming[u].episodes)
                => GetLastListeningPosition(u, g) = 0
       /\ last'.ev = "listened" =>
             /\ (~last.completed /\ last.position \notin {{}, {0}})'
                   => (last.position = {GetLastListeningPosition(last.url, last.guid)})'
             /\ last'.completed => GetLastListeningPosition(last.url, last.guid)' = 0
             /\ \A u \in Urls, g \in Guids :
                   <<u, g>> # <<last'.url, last'.guid>>
                      => GetLastListeningPosition(u, g)' = GetLastListeningPosition(u, g)]_vars

\* The position of an episode is cleared while another episode of the
\* podcast, which is not cached, keeps its own.
C35_Witness ==
    /\ last.ev = "listened"
    /\ last.completed
    /\ ~local[last.url].exists
    /\ \E g \in ResumeEpisodes \ {last.guid} : GetLastListeningPosition(last.url, g) = 7

\* C36: the OPML import processes every item; at its end a feed of the file
\* is starred if its fetchPodcast call succeeded, and has the roaming record
\* it had when every call for it failed; the roaming store is written once,
\* after the last item: roaming.json is what it was while the loop runs, and
\* at the end the two files hold the roaming and the local store.
C36_ImportStarsTheLoadedFeeds ==
    /\ \A i \in Tasks : task[i].pc = "importing" => rdisk = task[i].saved
    /\ last.ev = "imported" =>
          /\ last.loaded \cup last.failed = {last.items[k] : k \in DOMAIN last.items}
          /\ \A u \in last.loaded : IsStarredPodcast(roaming, u)
          /\ \A u \in Urls \ last.loaded : roaming[u] = last.before[u]
          /\ rdisk.doc = roaming
          /\ disk = Stringify(local, dlobj)

\* The first feed of the file fails, the second is loaded.
C36_Witness ==
    /\ last.ev = "imported"
    /\ Len(last.items) = 2
    /\ last.items[1] \in last.failed \ last.loaded
    /\ last.items[2] \in last.loaded \ last.failed
    /\ ~IsStarredPodcast(last.before, last.items[2])
    /\ ~IsStarredPodcast(roaming, last.items[1])

\* C37: the sweep belongs to the save of the local store: storing a
\* listening status and starring or unstarring from the podcast view leave
\* the local podcasts and local.json as they are, also when a podcast is
\* due to be purged; after a save of the local store (at the end of a
\* refresh or of a download) local.json holds the local store and no podcast
\* is due to be purged.
C37_SweepOnlyWithTheLocalSave ==
    [][/\ (last'.ev = "listened" \/ (last'.ev = "none" /\ roaming' # roaming))
             => (local' = local /\ disk' = disk)
       /\ (last'.ev = "updated" \/ (last'.ev = "enclosure" /\ last'.fresh))
             => /\ disk' = Stringify(local', dlobj')
                /\ PurgedUrls(local', dlobj', roaming', now') = {}]_vars

C37_Witness ==
    /\ last.ev = "listened"
    /\ PurgedUrls(local, dlobj, roaming, now) # {}
    /\ disk = Stringify(local, dlobj)

\* C38: when fetchPodcast(url) resolves, from the cache or after its
\* refresh, the store holds the podcast of url: the sweep of the save that
\* ends the refresh does not remove the entry just stored, whatever else it
\* removes.
C38_FetchedPodcastIsInTheStore ==
    (\/ last.ev = "cached"
     \/ last.ev = "updated" /\ last.op = "fetchPodcast")
    => /\ local[last.url].exists
       /\ disk[last.url].exists

\* The sweep of the refresh removes the podcast of the other caller and
\* keeps the one fetched, which is not starred and has no download.
C38_Witness ==
    /\ last.ev = "updated"
    /\ last.op = "fetchPodcast"
    /\ ~IsStarredPodcast(roaming, last.url)
    /\ Downloaded(last.url) = EmptyMap
    /\ \E u \in Urls \ {last.url} : last.swept[u].exists /\ ~local[u].exists

====
